---- MODULE Spec2Model ----
(***************************************************************************)
(* A model of kodegen-bundler-bundle: the command entry points, the        *)
(* bundling orchestrator, the containerized execution model (container     *)
(* runner, failure triage, cleanup guard) and the macOS dylib closure      *)
(* engine.  Each subsystem has its own variables, its own initial          *)
(* predicate and next-state relation, and its own specification; the       *)
(* variables of the other subsystems stay at their idle values.            *)
(***************************************************************************)
EXTENDS Integers, Sequences, FiniteSets, TLC

VARIABLES
    \* ---- ContainerBundler::bundle_platform and failure triage ----
    bp_pc,          \* position inside bundle_platform
    bp_guard,       \* ContainerGuard: "none" | "live" | "dropped"
    bp_container,   \* the named container: "absent" | "exists" | "removed"
    bp_cleanups,    \* how many times the container removal ran
    bp_temp,        \* target-temp-<uuid>: "absent" | "exists" | "removed"
    bp_run,         \* what run_container returned
    bp_oomkilled,   \* the runtime's State.OOMKilled flag of the container
    bp_platform,    \* platform_type_to_string(platform)
    hcf_is_oom,     \* value returned by is_oom_failure (FALSE before it ran)
    hcf_inspects,   \* docker inspect queries issued so far
    hcf_decided_at, \* hcf_inspects at the moment is_oom_failure decided
    hcf_status,     \* what the query inside is_oom_failure answered
    bp_result,      \* what bundle_platform returned
    \* ---- ContainerRunner::run_container and its child process ----
    rc_pc,          \* position inside run_container
    rc_reader,      \* per pipe: "reading" | "done" (loop ended, read end dropped)
    rc_captured,    \* captured_lines of the stderr task
    rc_elapsed,     \* ticks spent in timeout(DOCKER_RUN_TIMEOUT, child.wait())
    rc_grace,       \* ticks spent in timeout(10 s, child.wait()) after the kill
    rc_kill,        \* child.kill(): "none" | "ok" | "failed"
    rc_timed_out,   \* the Err(_elapsed) branch was taken
    rc_result,      \* what run_container returned
    ch_state,       \* the docker child: "none" | "running" | "exited"
    ch_code,        \* its exit code once exited
    ch_pipe,        \* per pipe: buffered lines and whether the write end is open
    ch_writes,      \* lines the child has written so far
    ch_blocked,     \* the write the child is stopped in, if any
    \* ---- Bundler::bundle / bundle_types ----
    bt_pc,          \* position inside bundle / bundle_types
    bt_host,        \* target_os the bundler was built for
    bt_has_makensis,    \* HAS_MAKENSIS
    bt_settings_types,  \* settings.package_types(): Option<&[PackageType]>
    bt_types,       \* the types slice bundle_types works on
    bt_k,           \* index of the loop's current package type (from 1)
    bt_out,         \* what the current type's producer returned
    bt_size,        \* size accumulated by the metadata loop
    bt_invoked,     \* the producers invoked so far, in order
    bt_artifacts,   \* the local artifacts vector
    bt_result,      \* what bundle_types returned
    \* ---- main, cli::run, commands::execute_command ----
    mn_entry,       \* the entry point called: "main" | "execute_command"
    mn_pc,          \* position inside it
    mn_args,        \* the parsed Args
    mn_os,          \* std::env::consts::OS
    mn_in_docker,   \* the in_docker detection of needs_docker
    mn_fs,          \* the artifact paths that exist on disk
    mn_package_type,    \* the parsed PackageType
    mn_artifact,    \* artifact_path (container) or source_path (native)
    mn_verified,    \* an existence check of the output has passed
    mn_ret,         \* what the entry point returned
    mn_exit,        \* the process exit code (-1 while running)
    \* ---- bundle_dylib_dependencies ----
    dy_pc,          \* position inside bundle_dylib_dependencies
    dy_disk,        \* the binaries and libraries on disk before the run
    dy_frameworks_dir,  \* Contents/Frameworks exists
    dy_frameworks,  \* the files in Contents/Frameworks
    dy_bin,         \* index of the loop's current binary (from 1)
    dy_todo,        \* the current binary's dependencies still to bundle
    dy_stack,       \* the active calls of bundle_dylib_and_deps, innermost first
    dy_processed,   \* the processed set
    dy_copies,      \* per library path, how many times it was copied
    dy_binfixed,    \* the binaries whose load paths were rewritten
    dy_result,      \* what bundle_dylib_dependencies returned
    \* ---- move_artifacts_to_final ----
    mv_pc,          \* position inside move_artifacts_to_final
    mv_os,          \* the build target: unix or windows (cfg)
    mv_artifacts,   \* the artifact paths handed in (in the temporary location)
    mv_temp,        \* the temporary bundle directory
    mv_final,       \* the final bundle directory
    mv_parent,      \* the final bundle directory's parent exists
    mv_result,      \* what move_artifacts_to_final returned
    \* ---- two concurrent bundle_platform invocations ----
    cc_os,          \* the build target: unix or windows (cfg)
    cc_inv,         \* per invocation: position, uuid, platform, artifacts, result
    cc_temp,        \* per uuid: target-temp-<uuid> and its bundle directory
    cc_final,       \* per platform: the final bundle directory
    cc_access,      \* which invocation touched which temporary directory
    \* ---- calculate_directory_sha256 ----
    hs_pc,          \* position inside calculate_directory_sha256
    hs_root,        \* dir_path, as its components
    hs_tree,        \* the entries of the tree: relative path, kind, content
    hs_walk,        \* the entries in the order WalkDir yielded them
    hs_entries,     \* the collected entries (absolute paths)
    hs_k,           \* index of the loop's current entry (from 1)
    hs_stream,      \* the bytes fed to the hasher so far
    hs_result,      \* what calculate_directory_sha256 returned
    \* ---- discover_artifacts ----
    ds_pc,          \* position inside discover_artifacts
    ds_platform,    \* the requested package type
    ds_dir,         \* the platform's bundle directory in the temporary target
    ds_todo,        \* the directory entries read_dir has yet to yield
    ds_artifacts,   \* the artifact paths collected so far
    ds_result,      \* what discover_artifacts returned
    \* ---- the macOS producers: app and dmg ----
    dm_pc,          \* position inside the run of the macOS package types
    dm_types,       \* the requested package types
    dm_k,           \* index of the loop's current type (from 1)
    dm_app,         \* what is at bundle/macos/<ProductName>.app
    dm_app_calls,   \* how many times app::bundle_project was invoked
    dm_opts,        \* the DMG settings: customization and signing
    dm_result,      \* what the run returned
    \* ---- a second run of the dylib engine on the same bundle ----
    rr_run,         \* 1 in the first run, 2 in the second
    rr_first,       \* what the first run left, taken when the second starts
    \* ---- ensure_image_built ----
    im_pc,          \* where ensure_image_built is
    im_force,       \* force_rebuild
    im_dockerfile,  \* whether .devcontainer/Dockerfile exists
    im_image,       \* the builder image docker holds, if any
    im_calls,       \* the docker commands run so far
    im_built,       \* whether docker build completed with exit 0
    im_age,         \* what get_image_age_days answered
    im_result       \* what ensure_image_built returned

bpvars == <<bp_pc, bp_guard, bp_container, bp_cleanups, bp_temp, bp_run,
            bp_oomkilled, bp_platform, hcf_is_oom, hcf_inspects,
            hcf_decided_at, hcf_status, bp_result>>

rcvars == <<rc_pc, rc_reader, rc_captured, rc_elapsed, rc_grace, rc_kill,
            rc_timed_out, rc_result, ch_state, ch_code, ch_pipe, ch_writes, ch_blocked>>

btvars == <<bt_pc, bt_host, bt_has_makensis, bt_settings_types, bt_types, bt_k,
            bt_out, bt_size, bt_invoked, bt_artifacts, bt_result>>

mnvars == <<mn_entry, mn_pc, mn_args, mn_os, mn_in_docker, mn_fs, mn_package_type,
            mn_artifact, mn_verified, mn_ret, mn_exit>>

dyvars == <<dy_pc, dy_disk, dy_frameworks_dir, dy_frameworks, dy_bin, dy_todo,
            dy_stack, dy_processed, dy_copies, dy_binfixed, dy_result>>

mvvars == <<mv_pc, mv_os, mv_artifacts, mv_temp, mv_final, mv_parent, mv_result>>

ccvars == <<cc_os, cc_inv, cc_temp, cc_final, cc_access>>

hsvars == <<hs_pc, hs_root, hs_tree, hs_walk, hs_entries, hs_k, hs_stream, hs_result>>

dsvars == <<ds_pc, ds_platform, ds_dir, ds_todo, ds_artifacts, ds_result>>

dmvars == <<dm_pc, dm_types, dm_k, dm_app, dm_app_calls, dm_opts, dm_result>>

rrvars == <<rr_run, rr_first>>

imvars == <<im_pc, im_force, im_dockerfile, im_image, im_calls, im_built, im_age, im_result>>

vars == <<bpvars, rcvars, btvars, mnvars, dyvars, mvvars, ccvars, hsvars, dsvars, dmvars, rrvars, imvars>>

\* the variables of the other subsystems, which a subsystem's actions leave alone
notbp == <<rcvars, btvars, mnvars, dyvars, mvvars, ccvars, hsvars, dsvars, dmvars, rrvars, imvars>>
notrc == <<bpvars, btvars, mnvars, dyvars, mvvars, ccvars, hsvars, dsvars, dmvars, rrvars, imvars>>
notbt == <<bpvars, rcvars, mnvars, dyvars, mvvars, ccvars, hsvars, dsvars, dmvars, rrvars, imvars>>
notmn == <<bpvars, rcvars, btvars, dyvars, mvvars, ccvars, hsvars, dsvars, dmvars, rrvars, imvars>>
notdy == <<bpvars, rcvars, btvars, mnvars, mvvars, ccvars, hsvars, dsvars, dmvars, rrvars, imvars>>
notmv == <<bpvars, rcvars, btvars, mnvars, dyvars, ccvars, hsvars, dsvars, dmvars, rrvars, imvars>>
notcc == <<bpvars, rcvars, btvars, mnvars, dyvars, mvvars, hsvars, dsvars, dmvars, rrvars, imvars>>
noths == <<bpvars, rcvars, btvars, mnvars, dyvars, mvvars, ccvars, dsvars, dmvars, rrvars, imvars>>
notds == <<bpvars, rcvars, btvars, mnvars, dyvars, mvvars, ccvars, hsvars, dmvars, rrvars, imvars>>
notdm == <<bpvars, rcvars, btvars, mnvars, dyvars, mvvars, ccvars, hsvars, dsvars, rrvars, imvars>>
notrr == <<bpvars, rcvars, btvars, mnvars, dyvars, mvvars, ccvars, hsvars, dsvars, dmvars, imvars>>
notim == <<bpvars, rcvars, btvars, mnvars, dyvars, mvvars, ccvars, hsvars, dsvars, dmvars, rrvars>>

(***************************************************************************)
(* Strings.  Rust's str operations used by the code, on TLA+ strings.      *)
(***************************************************************************)
UpperLetters == "ABCDEFGHIJKLMNOPQRSTUVWXYZ"
LowerLetters == "abcdefghijklmnopqrstuvwxyz"

\* char::to_lowercase on one ASCII character
LowerChar(c) ==
    IF \E i \in 1..Len(UpperLetters) : SubSeq(UpperLetters, i, i) = c
    THEN LET i == CHOOSE j \in 1..Len(UpperLetters) : SubSeq(UpperLetters, j, j) = c
         IN  SubSeq(LowerLetters, i, i)
    ELSE c

RECURSIVE ToLowercase(_)
\* str::to_lowercase
ToLowercase(s) ==
    IF Len(s) = 0 THEN ""
    ELSE LowerChar(SubSeq(s, 1, 1)) \o ToLowercase(SubSeq(s, 2, Len(s)))

\* str::contains(pattern)
Contains(s, pat) ==
    \E i \in 1..(Len(s) - Len(pat) + 1) : SubSeq(s, i, i + Len(pat) - 1) = pat

\* str::starts_with(prefix)
StartsWith(s, pre) ==
    Len(s) >= Len(pre) /\ SubSeq(s, 1, Len(pre)) = pre

IsWhitespace(c) == c \in {" ", "\n", "\t", "\r"}

RECURSIVE Trim(_)
\* str::trim
Trim(s) ==
    IF Len(s) = 0 THEN ""
    ELSE IF IsWhitespace(SubSeq(s, 1, 1)) THEN Trim(SubSeq(s, 2, Len(s)))
    ELSE IF IsWhitespace(SubSeq(s, Len(s), Len(s))) THEN Trim(SubSeq(s, 1, Len(s) - 1))
    ELSE s

RECURSIVE Join(_, _)
\* [String]::join(sep)
Join(lines, sep) ==
    IF Len(lines) = 0 THEN ""
    ELSE IF Len(lines) = 1 THEN lines[1]
    ELSE lines[1] \o sep \o Join(Tail(lines), sep)

\* sequences over S of length at most n
SeqUpTo(S, n) == UNION {[1..k -> S] : k \in 0..n}

(***************************************************************************)
(* OomDetector (src/cli/docker/oom_detector.rs)                            *)
(***************************************************************************)
\* Bound: how many stderr lines a modelled container run captures.
MaxStderrLines == 2

\* Timeout for docker run, in seconds (container_runner.rs).
DOCKER_RUN_TIMEOUT == 1200

\* Lines a container may write to stderr.
StderrLineSet ==
    { "Cannot allocate memory",
      "fatal: OUT OF MEMORY",
      "java.lang.outofmemoryerror",
      "Container OOMKilled",
      "terminated by signal: user requested shutdown",
      "warning: unused variable: room",
      "error: linker failed" }

\* Exit codes handed to the triage: status.code().unwrap_or(-1).
ExitCodes == {0, 1, 137, -1}

\* What `docker inspect <name> --format {{.State.OOMKilled}}` can answer
\* for a container whose OOMKilled flag is `flag`.
InspectResponses(flag) ==
    { [kind |-> "io_err", stdout |-> "", stderr |-> ""],
      [kind |-> "exit_fail", stdout |-> "", stderr |-> "Error: No such container"],
      [kind |-> "exit_fail", stdout |-> "", stderr |-> "Cannot connect to the Docker daemon"],
      [kind |-> "ok", stdout |-> (IF flag THEN "true\n" ELSE "false\n"), stderr |-> ""] }

\* check_container_oom_status: Err on a spawn failure, Ok(false) on a failed
\* inspect, else whether the trimmed lower-cased output is "true".
CheckContainerOomStatus(resp) ==
    IF resp.kind = "io_err" THEN [ok |-> FALSE, val |-> FALSE]
    ELSE IF resp.kind = "exit_fail" THEN [ok |-> TRUE, val |-> FALSE]
    ELSE [ok |-> TRUE, val |-> (ToLowercase(Trim(resp.stdout)) = "true")]

\* Result<bool, _>::unwrap_or(false)
UnwrapOrFalse(r) == IF r.ok THEN r.val ELSE FALSE

\* is_oom_failure, priority 1: the stderr scan.
IsOomStderr(stderr_str) ==
    \/ Contains(stderr_str, "OOMKilled")
    \/ Contains(stderr_str, "out of memory")
    \/ Contains(stderr_str, "Out of memory")
    \/ Contains(stderr_str, "OutOfMemoryError")
    \/ Contains(stderr_str, "Cannot allocate memory")
    \/ Contains(ToLowercase(stderr_str), "oom")

\* is_oom_failure, priority 3: what exit code 137 adds once the stderr scan
\* and the runtime status found nothing.
ExitCodeHeuristic(exit_code, stderr_str) ==
    IF exit_code = 137
    THEN LET stderr_lower == ToLowercase(stderr_str)
         IN  IF \/ Contains(stderr_lower, "killed by user")
                \/ Contains(stderr_lower, "sigkill")
                \/ Contains(stderr_lower, "shutdown")
                \/ Contains(stderr_lower, "terminated by signal")
             THEN FALSE
             ELSE IF Len(Trim(stderr_str)) = 0 THEN FALSE
             ELSE FALSE
    ELSE FALSE

\* format_oom_error: the reason text.  is_oom_status is what its own status
\* query answered.  (The bullet character of the source is written "*".)
FormatOomReason(platform_str, stderr_lines, exit_code, is_oom_status, memory_limit, memory_swap, total_memory_gb) ==
    LET stderr_str == Join(stderr_lines, "\n")
    IN  "Container ran out of memory during build.\n\n"
        \o (IF is_oom_status THEN "(Detected via Docker container status)\n"
            ELSE IF exit_code = 137 THEN "(Detected via exit code 137 - SIGKILL)\n"
            ELSE "(Detected via error message)\n")
        \o "\nCurrent memory limit: " \o memory_limit \o " (swap: " \o memory_swap \o ")\n"
        \o "\nThe container exhausted available memory while building. This typically happens when:\n"
        \o "* Building large Rust projects with many dependencies\n"
        \o "* Parallel compilation uses more RAM than available\n"
        \o "* Debug builds require more memory than release builds\n"
        \o "\nSolutions:\n1. Increase memory limit:\n"
        \o "cargo run -p kodegen_bundler_release -- bundle --platform " \o platform_str \o " --docker-memory 8g\n"
        \o "\n2. Build fewer platforms in parallel (run multiple times with --platform)\n"
        \o "\n3. Use release builds (they use less memory):\n"
        \o "cargo run -p kodegen_bundler_release -- bundle --platform " \o platform_str \o " --release\n"
        \o "\n4. Check available system memory: " \o ToString(total_memory_gb) \o " GB total"
        \o (IF Len(stderr_str) # 0
            THEN "\n\n=== ACTUAL STDERR OUTPUT ===\n" \o stderr_str
            ELSE "")

\* the error_output part shared by the two non-OOM errors
ErrorOutput(stderr_lines) ==
    LET stderr_str == Join(stderr_lines, "\n")
    IN  IF Len(stderr_str) # 0 THEN "stderr:\n" \o stderr_str
        ELSE "No error output captured"

\* format_generic_error: the reason text
FormatGenericReason(exit_code, stderr_lines) ==
    "Container bundling failed with exit code: " \o ToString(exit_code)
    \o "\n\n" \o ErrorOutput(stderr_lines)

\* format_sigkill_error: the reason text
FormatSigkillReason(stderr_lines) ==
    "Container was killed with SIGKILL (exit code 137).\n"
    \o "\nThis can indicate:\n"
    \o "* Out of memory (but no OOM markers found in logs/status)\n"
    \o "* User cancellation (Ctrl+C, docker kill, kill -9)\n"
    \o "* System shutdown or reboot\n"
    \o "* PID limit reached (--pids-limit)\n"
    \o "* Docker daemon crash or restart\n"
    \o "\nTo diagnose:\n"
    \o "* Check system logs: journalctl -u docker (Linux) or Console.app (macOS)\n"
    \o "* Check kernel logs: dmesg | grep -i oom\n"
    \o "* Verify container limits: --docker-memory, --cpus, --pids-limit\n"
    \o "* Check if you manually killed the process\n"
    \o "\n" \o ErrorOutput(stderr_lines)

\* run_container's timed-out reason text
TimedOutReason ==
    "Docker bundling timed out after " \o ToString(DOCKER_RUN_TIMEOUT \div 60) \o " minutes.\n"
    \o "\nThis usually indicates:\n"
    \o "* Very slow build (large dependency downloads)\n"
    \o "* System resource constraints\n"
    \o "* Network issues\n"
    \o "\nTry:\n"
    \o "* Increase container resource limits\n"
    \o "* Check available system memory/CPU\n"
    \o "* Use --build flag to reuse cached builds"

\* BundlerError::Cli(CliError::ExecutionFailed { command, reason })
ExecutionFailed(command, reason) ==
    [kind |-> "err", command |-> command, reason |-> reason]

(***************************************************************************)
(* ContainerBundler::bundle_platform (src/cli/docker/bundler.rs)           *)
(***************************************************************************)
\* self.limits.memory / self.limits.memory_swap of the modelled bundler
MemoryLimit == "4g"
MemorySwap == "6g"
\* sys.total_memory() / 1024^3 on the modelled host
HostMemoryGb == 16

PlatformStrings == {"deb", "exe"}

\* What run_container can hand back to bundle_platform.
RunOutcomes ==
    { [kind |-> "exited", exit |-> c, stderr |-> l] :
          c \in ExitCodes, l \in SeqUpTo(StderrLineSet, MaxStderrLines) }
    \cup { [kind |-> "err", exit |-> 0, stderr |-> <<>>, command |-> "docker run", reason |-> r] :
          r \in {"spawn failed", "wait failed", TimedOutReason} }

BpInit ==
    /\ bp_pc = "start"
    /\ bp_guard = "none"
    /\ bp_container = "absent"
    /\ bp_cleanups = 0
    /\ bp_temp = "absent"
    /\ bp_run = [kind |-> "none"]
    /\ bp_oomkilled = FALSE
    /\ bp_platform \in PlatformStrings
    /\ hcf_is_oom = FALSE
    /\ hcf_inspects = 0
    /\ hcf_decided_at = 0
    /\ hcf_status = [kind |-> "none"]
    /\ bp_result = [kind |-> "none"]

BpIdle ==
    /\ bp_pc = "idle"
    /\ bp_guard = "none"
    /\ bp_container = "absent"
    /\ bp_cleanups = 0
    /\ bp_temp = "absent"
    /\ bp_run = [kind |-> "none"]
    /\ bp_oomkilled = FALSE
    /\ bp_platform = "deb"
    /\ hcf_is_oom = FALSE
    /\ hcf_inspects = 0
    /\ hcf_decided_at = 0
    /\ hcf_status = [kind |-> "none"]
    /\ bp_result = [kind |-> "none"]

\* Drop for ContainerGuard: force-remove the named container.
DropGuard ==
    IF bp_guard = "live"
    THEN /\ bp_guard' = "dropped"
         /\ bp_cleanups' = bp_cleanups + 1
         /\ bp_container' = IF bp_container = "exists" THEN "removed" ELSE bp_container
    ELSE UNCHANGED <<bp_guard, bp_cleanups, bp_container>>

\* Leaving bundle_platform with `res`: the locals go out of scope, _guard
\* among them.
BpReturn(res) ==
    /\ bp_pc' = "returned"
    /\ bp_result' = res
    /\ DropGuard

\* `let _ = ContainerGuard { .. }`: the guard is dropped where it is made.
BpCreateGuardDiscarded ==
    /\ bp_pc = "start"
    /\ bp_pc' = "guarded"
    /\ bp_guard' = "dropped"
    /\ bp_cleanups' = bp_cleanups + 1
    /\ UNCHANGED <<bp_container, bp_temp, bp_run, bp_oomkilled, bp_platform,
                   hcf_is_oom, hcf_inspects, hcf_decided_at, hcf_status, bp_result>>
    /\ UNCHANGED notbp

\* let _guard = ContainerGuard { name }
BpCreateGuard ==
    /\ bp_pc = "start"
    /\ bp_pc' = "guarded"
    /\ bp_guard' = "live"
    /\ UNCHANGED <<bp_container, bp_cleanups, bp_temp, bp_run, bp_oomkilled, bp_platform,
                   hcf_is_oom, hcf_inspects, hcf_decided_at, hcf_status, bp_result>>
    /\ UNCHANGED notbp

\* self.resolve_workspace_path()?
BpResolveWorkspace ==
    /\ bp_pc = "guarded"
    /\ \E ok \in BOOLEAN :
          IF ok
          THEN /\ bp_pc' = "resolved"
               /\ UNCHANGED <<bp_guard, bp_cleanups, bp_container, bp_result>>
          ELSE BpReturn(ExecutionFailed("resolve workspace path", "Cannot resolve workspace path"))
    /\ UNCHANGED <<bp_temp, bp_run, bp_oomkilled, bp_platform,
                   hcf_is_oom, hcf_inspects, hcf_decided_at, hcf_status>>
    /\ UNCHANGED notbp

\* self.prepare_temp_directory(&workspace_path, &build_uuid)?
BpPrepareTemp ==
    /\ bp_pc = "resolved"
    /\ \E outcome \in {"ok", "target_failed", "temp_failed"} :
          IF outcome = "ok"
          THEN /\ bp_pc' = "prepared"
               /\ bp_temp' = "exists"
               /\ UNCHANGED <<bp_guard, bp_cleanups, bp_container, bp_result>>
          ELSE /\ BpReturn(ExecutionFailed(
                      IF outcome = "target_failed" THEN "create target directory"
                      ELSE "create temporary target directory", "Failed to create"))
               /\ UNCHANGED bp_temp
    /\ UNCHANGED <<bp_run, bp_oomkilled, bp_platform,
                   hcf_is_oom, hcf_inspects, hcf_decided_at, hcf_status>>
    /\ UNCHANGED notbp

\* runner.run_container(docker_args, runtime_config).await: docker run
\* creates the named container unless the docker process cannot be spawned.
BpRunContainer ==
    /\ bp_pc = "prepared"
    /\ \E r \in RunOutcomes, flag \in BOOLEAN :
          /\ bp_run' = r
          /\ bp_oomkilled' = flag
          /\ bp_container' = IF r.kind = "err" /\ r.reason = "spawn failed"
                             THEN "absent" ELSE "exists"
    /\ bp_pc' = "ran"
    /\ UNCHANGED <<bp_guard, bp_cleanups, bp_temp, bp_platform, hcf_is_oom, hcf_inspects,
                   hcf_decided_at, hcf_status, bp_result>>
    /\ UNCHANGED notbp

\* the `?` on run_container's result and `if !result.status.success()`
BpCheckRun ==
    /\ bp_pc = "ran"
    /\ IF bp_run.kind = "err"
       THEN BpReturn(ExecutionFailed(bp_run.command, bp_run.reason))
       ELSE /\ bp_pc' = IF bp_run.exit # 0 THEN "failed" ELSE "succeeded"
            /\ UNCHANGED <<bp_guard, bp_cleanups, bp_container, bp_result>>
    /\ UNCHANGED <<bp_temp, bp_run, bp_oomkilled, bp_platform,
                   hcf_is_oom, hcf_inspects, hcf_decided_at, hcf_status>>
    /\ UNCHANGED notbp

\* is_oom_failure, lines 96-107: the stderr scan decides alone when it hits.
HcfScanStderr ==
    /\ bp_pc = "failed"
    /\ IF IsOomStderr(Join(bp_run.stderr, "\n"))
       THEN /\ hcf_is_oom' = TRUE
            /\ hcf_decided_at' = hcf_inspects
            /\ bp_pc' = "format"
       ELSE /\ bp_pc' = "query"
            /\ UNCHANGED <<hcf_is_oom, hcf_decided_at>>
    /\ UNCHANGED <<bp_guard, bp_container, bp_cleanups, bp_temp, bp_run, bp_oomkilled,
                   bp_platform, hcf_inspects, hcf_status, bp_result>>
    /\ UNCHANGED notbp

\* is_oom_failure, lines 109-153: the runtime status query, then the exit
\* code heuristic.
HcfQueryStatus ==
    /\ bp_pc = "query"
    /\ \E resp \in InspectResponses(bp_oomkilled) :
          /\ hcf_status' = resp
          /\ hcf_inspects' = hcf_inspects + 1
          /\ hcf_decided_at' = hcf_inspects + 1
          /\ hcf_is_oom' =
                IF UnwrapOrFalse(CheckContainerOomStatus(resp)) THEN TRUE
                ELSE ExitCodeHeuristic(bp_run.exit, Join(bp_run.stderr, "\n"))
    /\ bp_pc' = "format"
    /\ UNCHANGED <<bp_guard, bp_container, bp_cleanups, bp_temp, bp_run, bp_oomkilled,
                   bp_platform, bp_result>>
    /\ UNCHANGED notbp

\* handle_container_failure with the exit-code test ahead of the OOM test
HandleContainerFailureExitFirst(is_oom, exit_code, stderr_lines, platform_str, is_oom_status) ==
    IF exit_code = 137
    THEN ExecutionFailed("bundle " \o platform_str \o " in container",
                         FormatSigkillReason(stderr_lines))
    ELSE IF is_oom
    THEN ExecutionFailed("bundle " \o platform_str \o " in container",
                         FormatOomReason(platform_str, stderr_lines, exit_code, is_oom_status,
                                         MemoryLimit, MemorySwap, HostMemoryGb))
    ELSE ExecutionFailed("bundle " \o platform_str \o " in container",
                         FormatGenericReason(exit_code, stderr_lines))

\* handle_container_failure, lines 242-254: which error is built
HandleContainerFailure(is_oom, exit_code, stderr_lines, platform_str, is_oom_status) ==
    IF is_oom
    THEN ExecutionFailed("bundle " \o platform_str \o " in container",
                         FormatOomReason(platform_str, stderr_lines, exit_code, is_oom_status,
                                         MemoryLimit, MemorySwap, HostMemoryGb))
    ELSE IF exit_code = 137
    THEN ExecutionFailed("bundle " \o platform_str \o " in container",
                         FormatSigkillReason(stderr_lines))
    ELSE ExecutionFailed("bundle " \o platform_str \o " in container",
                         FormatGenericReason(exit_code, stderr_lines))

\* handle_container_failure: build the error (format_oom_error queries the
\* runtime status once more) and return it from bundle_platform.
HcfFormat ==
    /\ bp_pc = "format"
    /\ IF hcf_is_oom = TRUE
       THEN \E resp \in InspectResponses(bp_oomkilled) :
               /\ hcf_inspects' = hcf_inspects + 1
               /\ BpReturn(HandleContainerFailure(TRUE, bp_run.exit, bp_run.stderr, bp_platform,
                               UnwrapOrFalse(CheckContainerOomStatus(resp))))
       ELSE /\ UNCHANGED hcf_inspects
            /\ BpReturn(HandleContainerFailure(FALSE, bp_run.exit, bp_run.stderr, bp_platform, FALSE))
    /\ UNCHANGED <<bp_temp, bp_run, bp_oomkilled, bp_platform,
                   hcf_is_oom, hcf_decided_at, hcf_status>>
    /\ UNCHANGED notbp

\* artifact_mgr.discover_artifacts(..).await?
BpDiscover ==
    /\ bp_pc = "succeeded"
    /\ \E ok \in BOOLEAN :
          IF ok
          THEN /\ bp_pc' = "discovered"
               /\ UNCHANGED <<bp_guard, bp_cleanups, bp_container, bp_result>>
          ELSE BpReturn(ExecutionFailed("find artifacts", "No artifacts found"))
    /\ UNCHANGED <<bp_temp, bp_run, bp_oomkilled, bp_platform,
                   hcf_is_oom, hcf_inspects, hcf_decided_at, hcf_status>>
    /\ UNCHANGED notbp

\* artifact_mgr.move_artifacts_to_final(..).await?
BpMove ==
    /\ bp_pc = "discovered"
    /\ \E ok \in BOOLEAN :
          IF ok
          THEN /\ bp_pc' = "moved"
               /\ UNCHANGED <<bp_guard, bp_cleanups, bp_container, bp_result>>
          ELSE BpReturn(ExecutionFailed("move artifacts to final location", "Failed to rename"))
    /\ UNCHANGED <<bp_temp, bp_run, bp_oomkilled, bp_platform,
                   hcf_is_oom, hcf_inspects, hcf_decided_at, hcf_status>>
    /\ UNCHANGED notbp

\* artifact_mgr.cleanup_temp_directory(..).await; Ok(artifacts)
BpCleanupTempAndReturn ==
    /\ bp_pc = "moved"
    /\ \E removed \in BOOLEAN :
          bp_temp' = IF removed THEN "removed" ELSE bp_temp
    /\ BpReturn([kind |-> "ok"])
    /\ UNCHANGED <<bp_run, bp_oomkilled, bp_platform,
                   hcf_is_oom, hcf_inspects, hcf_decided_at, hcf_status>>
    /\ UNCHANGED notbp

BpNext ==
    \/ BpCreateGuard
    \/ BpResolveWorkspace
    \/ BpPrepareTemp
    \/ BpRunContainer
    \/ BpCheckRun
    \/ HcfScanStderr
    \/ HcfQueryStatus
    \/ HcfFormat
    \/ BpDiscover
    \/ BpMove
    \/ BpCleanupTempAndReturn


(***************************************************************************)
(* ContainerRunner::run_container (src/cli/docker/container_runner.rs)     *)
(***************************************************************************)
\* Bounds: OS pipe buffer size in lines, lines a child writes, and the two
\* waits of run_container in clock ticks (DOCKER_RUN_TIMEOUT, then the 10 s
\* grace period after the kill).
PipeCapacity == 2
MaxChildWrites == 3
TimeoutTicks == 2
GraceTicks == 2

Pipes == {"stdout", "stderr"}
\* a line the child writes: valid UTF-8 or not
LineKinds == {"line", "bad"}

RcInit ==
    /\ rc_pc = "spawn"
    /\ rc_reader = [p \in Pipes |-> "reading"]
    /\ rc_captured = <<>>
    /\ rc_elapsed = 0
    /\ rc_grace = 0
    /\ rc_kill = "none"
    /\ rc_timed_out = FALSE
    /\ rc_result = [kind |-> "none"]
    /\ ch_state = "none"
    /\ ch_code = 0
    /\ ch_pipe = [p \in Pipes |-> [buf |-> <<>>, wopen |-> TRUE]]
    /\ ch_writes = 0
    /\ ch_blocked = [pipe |-> "none", line |-> "none"]

RcIdle ==
    /\ rc_pc = "idle"
    /\ rc_reader = [p \in Pipes |-> "reading"]
    /\ rc_captured = <<>>
    /\ rc_elapsed = 0
    /\ rc_grace = 0
    /\ rc_kill = "none"
    /\ rc_timed_out = FALSE
    /\ rc_result = [kind |-> "none"]
    /\ ch_state = "none"
    /\ ch_code = 0
    /\ ch_pipe = [p \in Pipes |-> [buf |-> <<>>, wopen |-> TRUE]]
    /\ ch_writes = 0
    /\ ch_blocked = [pipe |-> "none", line |-> "none"]

\* ---- the child process (docker run) ----

\* the child is stopped in write(2) on pipe p
ChildBlockedOn(p) == ch_blocked.pipe = p

ChildRunning == ch_state = "running" /\ ch_blocked.pipe = "none"

\* The child writes one line to pipe p.  A pipe whose read end is gone fails
\* the write (EPIPE); a pipe with room takes the line; a full pipe stops the
\* child inside the write.
ChildWrite(p) ==
    /\ ChildRunning
    /\ ch_pipe[p].wopen
    /\ ch_writes < MaxChildWrites
    /\ \E k \in LineKinds :
          IF rc_reader[p] = "done"
          THEN UNCHANGED <<ch_pipe, ch_blocked>>
          ELSE IF Len(ch_pipe[p].buf) < PipeCapacity
          THEN /\ ch_pipe' = [ch_pipe EXCEPT ![p].buf = Append(@, k)]
               /\ UNCHANGED ch_blocked
          ELSE /\ ch_blocked' = [pipe |-> p, line |-> k]
               /\ UNCHANGED ch_pipe
    /\ ch_writes' = ch_writes + 1
    /\ UNCHANGED <<rc_pc, rc_reader, rc_captured, rc_elapsed, rc_grace, rc_kill,
                   rc_timed_out, rc_result, ch_state, ch_code>>
    /\ UNCHANGED notrc

\* The kernel completes a stopped write: the pipe has room again, or its
\* read end was closed (EPIPE).
ChildWriteResume(p) ==
    /\ ch_state = "running"
    /\ ChildBlockedOn(p)
    /\ \/ /\ rc_reader[p] = "done"
          /\ UNCHANGED ch_pipe
       \/ /\ rc_reader[p] # "done"
          /\ Len(ch_pipe[p].buf) < PipeCapacity
          /\ ch_pipe' = [ch_pipe EXCEPT ![p].buf = Append(@, ch_blocked.line)]
    /\ ch_blocked' = [pipe |-> "none", line |-> "none"]
    /\ UNCHANGED <<rc_pc, rc_reader, rc_captured, rc_elapsed, rc_grace, rc_kill,
                   rc_timed_out, rc_result, ch_state, ch_code, ch_writes>>
    /\ UNCHANGED notrc

\* The child closes its end of pipe p.
ChildClose(p) ==
    /\ ChildRunning
    /\ ch_pipe[p].wopen
    /\ ch_pipe' = [ch_pipe EXCEPT ![p].wopen = FALSE]
    /\ UNCHANGED <<rc_pc, rc_reader, rc_captured, rc_elapsed, rc_grace, rc_kill,
                   rc_timed_out, rc_result, ch_state, ch_code, ch_writes, ch_blocked>>
    /\ UNCHANGED notrc

\* The child exits by itself; the OS closes its pipe ends.
ChildExit ==
    /\ ChildRunning
    /\ \E c \in ExitCodes : ch_code' = c
    /\ ch_state' = "exited"
    /\ ch_pipe' = [p \in Pipes |-> [ch_pipe[p] EXCEPT !.wopen = FALSE]]
    /\ UNCHANGED <<rc_pc, rc_reader, rc_captured, rc_elapsed, rc_grace, rc_kill,
                   rc_timed_out, rc_result, ch_writes, ch_blocked>>
    /\ UNCHANGED notrc

ChildNext ==
    \/ \E p \in Pipes : ChildWrite(p)
    \/ \E p \in Pipes : ChildWriteResume(p)
    \/ \E p \in Pipes : ChildClose(p)
    \/ ChildExit

\* ---- run_container ----

\* Command::new("docker")...spawn()?
RcSpawn ==
    /\ rc_pc = "spawn"
    /\ \E ok \in BOOLEAN :
          IF ok
          THEN /\ rc_pc' = "join"
               /\ ch_state' = "running"
               /\ UNCHANGED rc_result
          ELSE /\ rc_pc' = "returned"
               /\ rc_result' = ExecutionFailed("docker run", "spawn failed")
               /\ UNCHANGED ch_state
    /\ UNCHANGED <<rc_reader, rc_captured, rc_elapsed, rc_grace, rc_kill, rc_timed_out,
                   ch_code, ch_pipe, ch_writes, ch_blocked>>
    /\ UNCHANGED notrc

\* draining stdout to its end before stderr is looked at
ReaderActiveSequential(p) ==
    /\ rc_pc = "join"
    /\ rc_reader[p] = "reading"
    /\ (p = "stderr" => rc_reader["stdout"] = "done")

\* tokio::join! polls both reading tasks: each runs until its own loop ends
ReaderActive(p) ==
    /\ rc_pc = "join"
    /\ rc_reader[p] = "reading"

\* lines.next_line().await yields a line: Ok(Some(line)) goes on (stderr
\* lines are captured), Err (invalid UTF-8) ends the loop and drops the
\* reader with its pipe end.
RcReadLine(p) ==
    /\ ReaderActive(p)
    /\ Len(ch_pipe[p].buf) > 0
    /\ LET k == Head(ch_pipe[p].buf)
       IN  /\ rc_reader' = [rc_reader EXCEPT ![p] = IF k = "bad" THEN "done" ELSE @]
           /\ ch_pipe' = [ch_pipe EXCEPT ![p].buf = IF k = "bad" THEN <<>> ELSE Tail(@)]
           /\ rc_captured' = IF p = "stderr" /\ k = "line"
                             THEN Append(rc_captured, k) ELSE rc_captured
    /\ UNCHANGED <<rc_pc, rc_elapsed, rc_grace, rc_kill, rc_timed_out, rc_result,
                   ch_state, ch_code, ch_writes, ch_blocked>>
    /\ UNCHANGED notrc

\* lines.next_line().await yields Ok(None): the write end is closed and
\* nothing is buffered.
RcReadEof(p) ==
    /\ ReaderActive(p)
    /\ Len(ch_pipe[p].buf) = 0
    /\ ~ch_pipe[p].wopen
    /\ rc_reader' = [rc_reader EXCEPT ![p] = "done"]
    /\ UNCHANGED <<rc_pc, rc_captured, rc_elapsed, rc_grace, rc_kill, rc_timed_out,
                   rc_result, ch_state, ch_code, ch_pipe, ch_writes, ch_blocked>>
    /\ UNCHANGED notrc

\* tokio::join! completes when both tasks have; the timeout wait starts.
RcJoinDone ==
    /\ rc_pc = "join"
    /\ \A p \in Pipes : rc_reader[p] = "done"
    /\ rc_pc' = "wait"
    /\ rc_elapsed' = 0
    /\ UNCHANGED <<rc_reader, rc_captured, rc_grace, rc_kill, rc_timed_out, rc_result,
                   ch_state, ch_code, ch_pipe, ch_writes, ch_blocked>>
    /\ UNCHANGED notrc

\* time passes inside timeout(DOCKER_RUN_TIMEOUT, child.wait())
RcTick ==
    /\ rc_pc = "wait"
    /\ rc_elapsed < TimeoutTicks
    /\ rc_elapsed' = rc_elapsed + 1
    /\ UNCHANGED <<rc_pc, rc_reader, rc_captured, rc_grace, rc_kill, rc_timed_out,
                   rc_result, ch_state, ch_code, ch_pipe, ch_writes, ch_blocked>>
    /\ UNCHANGED notrc

\* Ok(Ok(status)): the exit is observed; Ok(ContainerRunResult) is returned.
RcWaitExit ==
    /\ rc_pc = "wait"
    /\ ch_state = "exited"
    /\ rc_pc' = "returned"
    /\ rc_result' = [kind |-> "ok", exit |-> ch_code, stderr_lines |-> rc_captured]
    /\ UNCHANGED <<rc_reader, rc_captured, rc_elapsed, rc_grace, rc_kill, rc_timed_out,
                   ch_state, ch_code, ch_pipe, ch_writes, ch_blocked>>
    /\ UNCHANGED notrc

\* Ok(Err(e)): child.wait() itself fails.
RcWaitErr ==
    /\ rc_pc = "wait"
    /\ rc_pc' = "returned"
    /\ rc_result' = ExecutionFailed("docker run", "wait failed")
    /\ UNCHANGED <<rc_reader, rc_captured, rc_elapsed, rc_grace, rc_kill, rc_timed_out,
                   ch_state, ch_code, ch_pipe, ch_writes, ch_blocked>>
    /\ UNCHANGED notrc

\* Err(_elapsed): the timeout fires before the exit is observed; warn and
\* child.kill().await, whose failure is only logged.  tokio's kill sends
\* SIGKILL and awaits the exit, so a kill that succeeds has ended the child;
\* a kill that fails leaves it as it was.
RcTimeoutKill ==
    /\ rc_pc = "wait"
    /\ rc_elapsed = TimeoutTicks
    /\ rc_timed_out' = TRUE
    /\ \E ok \in BOOLEAN :
          /\ rc_kill' = IF ok THEN "ok" ELSE "failed"
          /\ IF ok /\ ch_state = "running"
             THEN /\ ch_state' = "exited"
                  /\ ch_code' = -1
                  /\ ch_pipe' = [p \in Pipes |-> [ch_pipe[p] EXCEPT !.wopen = FALSE]]
                  /\ ch_blocked' = [pipe |-> "none", line |-> "none"]
             ELSE UNCHANGED <<ch_state, ch_code, ch_pipe, ch_blocked>>
    /\ rc_pc' = "grace"
    /\ rc_grace' = 0
    /\ UNCHANGED <<rc_reader, rc_captured, rc_elapsed, rc_result, ch_writes>>
    /\ UNCHANGED notrc

\* time passes inside timeout(Duration::from_secs(10), child.wait())
RcGraceTick ==
    /\ rc_pc = "grace"
    /\ ch_state # "exited"
    /\ rc_grace < GraceTicks
    /\ rc_grace' = rc_grace + 1
    /\ UNCHANGED <<rc_pc, rc_reader, rc_captured, rc_elapsed, rc_kill, rc_timed_out,
                   rc_result, ch_state, ch_code, ch_pipe, ch_writes, ch_blocked>>
    /\ UNCHANGED notrc

\* the grace wait's result is discarded and the exit status returned as a
\* normal result when the child did exit
RcGraceEndReturnsStatus ==
    /\ rc_pc = "grace"
    /\ (ch_state = "exited" \/ rc_grace = GraceTicks)
    /\ rc_pc' = "returned"
    /\ rc_result' = IF ch_state = "exited"
                    THEN [kind |-> "ok", exit |-> ch_code, stderr_lines |-> rc_captured]
                    ELSE ExecutionFailed("docker run", TimedOutReason)
    /\ UNCHANGED <<rc_reader, rc_captured, rc_elapsed, rc_grace, rc_kill, rc_timed_out,
                   ch_state, ch_code, ch_pipe, ch_writes, ch_blocked>>
    /\ UNCHANGED notrc

\* `let _ = timeout(10 s, child.wait()).await;` ends (exit seen or grace
\* over) and the timed-out error is returned.
RcGraceEnd ==
    /\ rc_pc = "grace"
    /\ (ch_state = "exited" \/ rc_grace = GraceTicks)
    /\ rc_pc' = "returned"
    /\ rc_result' = ExecutionFailed("docker run", TimedOutReason)
    /\ UNCHANGED <<rc_reader, rc_captured, rc_elapsed, rc_grace, rc_kill, rc_timed_out,
                   ch_state, ch_code, ch_pipe, ch_writes, ch_blocked>>
    /\ UNCHANGED notrc

RcNext ==
    \/ RcSpawn
    \/ \E p \in Pipes : RcReadLine(p)
    \/ \E p \in Pipes : RcReadEof(p)
    \/ RcJoinDone
    \/ RcTick
    \/ RcWaitExit
    \/ RcWaitErr
    \/ RcTimeoutKill
    \/ RcGraceTick
    \/ RcGraceEnd

(***************************************************************************)
(* Bundler::bundle and Bundler::bundle_types                                *)
(* (src/bundler/builder/orchestrator.rs)                                   *)
(***************************************************************************)
MaxTypes == 2       \* longest list of requested package types
MaxPaths == 2       \* most paths one producer returns

PackageTypes == {"Deb", "Rpm", "AppImage", "MacOsBundle", "Dmg", "Exe"}

\* cfg!(target_os) of the build
Hosts == {"linux", "macos", "other"}

\* what a path returned by a producer is on disk: a file that can be read,
\* a file whose read fails, or nothing
PathStates == {"ok", "unreadable", "missing"}

ArtifactSize == 2048

\* the match arms of bundle_types that exist under each cfg(target_os)
HasProducer(host, package_type) ==
    \/ host = "linux" /\ package_type \in {"Deb", "Rpm", "AppImage", "Exe"}
    \/ host = "macos" /\ package_type \in {"MacOsBundle", "Dmg"}

\* a determine_platform_types that ignores the settings' package types
DeterminePlatformTypesIgnoresSettings(host, settings_types, has_makensis) ==
    IF host = "linux"
    THEN <<"Deb", "Rpm", "AppImage">> \o (IF has_makensis THEN <<"Exe">> ELSE <<>>)
    ELSE IF host = "macos"
    THEN <<"MacOsBundle", "Dmg">>
    ELSE <<>>

\* Bundler::determine_platform_types
DeterminePlatformTypes(host, settings_types, has_makensis) ==
    IF settings_types.some
    THEN settings_types.val
    ELSE IF host = "linux"
    THEN <<"Deb", "Rpm", "AppImage">> \o (IF has_makensis THEN <<"Exe">> ELSE <<>>)
    ELSE IF host = "macos"
    THEN <<"MacOsBundle", "Dmg">>
    ELSE <<>>

\* what a platform producer (bundle_project) can return
ProducerOutcomes ==
    {[kind |-> "err", paths |-> <<>>]}
        \cup {[kind |-> "ok", paths |-> ps] : ps \in SeqUpTo(PathStates, MaxPaths)}

\* the path names a producer returns for a package type
ArtifactPath(package_type, i) == "bundle/" \o package_type \o "/artifact" \o ToString(i)

ArtifactPaths(package_type, n) == [i \in 1..n |-> ArtifactPath(package_type, i)]

NoOutcome == [k |-> 0, kind |-> "none", paths |-> <<>>]

BtInit ==
    /\ bt_pc = "bundle"
    /\ bt_host \in Hosts
    /\ bt_has_makensis \in BOOLEAN
    /\ bt_settings_types \in
          {[some |-> FALSE, val |-> <<>>]}
              \cup {[some |-> TRUE, val |-> ts] : ts \in SeqUpTo(PackageTypes, MaxTypes)}
    /\ bt_types = <<>>
    /\ bt_k = 0
    /\ bt_out = NoOutcome
    /\ bt_size = 0
    /\ bt_invoked = <<>>
    /\ bt_artifacts = <<>>
    /\ bt_result = [kind |-> "none"]

BtIdle ==
    /\ bt_pc = "idle"
    /\ bt_host = "linux"
    /\ bt_has_makensis = FALSE
    /\ bt_settings_types = [some |-> FALSE, val |-> <<>>]
    /\ bt_types = <<>>
    /\ bt_k = 0
    /\ bt_out = NoOutcome
    /\ bt_size = 0
    /\ bt_invoked = <<>>
    /\ bt_artifacts = <<>>
    /\ bt_result = [kind |-> "none"]

\* bundle_types returns Err(reason): the local artifacts vector is dropped
BtFail(reason) ==
    /\ bt_pc' = "returned"
    /\ bt_result' = [kind |-> "err", reason |-> reason]

\* bundle(): determine_platform_types, then bundle_types with an empty
\* artifacts vector
BtBundle ==
    /\ bt_pc = "bundle"
    /\ bt_types' = DeterminePlatformTypes(bt_host, bt_settings_types, bt_has_makensis)
    /\ bt_k' = 1
    /\ bt_pc' = "loop"
    /\ UNCHANGED <<bt_host, bt_has_makensis, bt_settings_types, bt_out, bt_size,
                   bt_invoked, bt_artifacts, bt_result>>
    /\ UNCHANGED notbt

\* the for loop is over: Ok(artifacts)
BtLoopEnd ==
    /\ bt_pc = "loop"
    /\ bt_k > Len(bt_types)
    /\ bt_pc' = "returned"
    /\ bt_result' = [kind |-> "ok", artifacts |-> bt_artifacts]
    /\ UNCHANGED <<bt_host, bt_has_makensis, bt_settings_types, bt_types, bt_k,
                   bt_out, bt_size, bt_invoked, bt_artifacts>>
    /\ UNCHANGED notbt

\* a loop that starts a type's producer and moves on to the next type
\* without waiting for its result
BtProduceWithoutWaiting ==
    /\ bt_pc = "loop"
    /\ bt_k <= Len(bt_types)
    /\ bt_invoked' = Append(bt_invoked, bt_types[bt_k])
    /\ bt_k' = bt_k + 1
    /\ UNCHANGED <<bt_host, bt_has_makensis, bt_settings_types, bt_types, bt_pc,
                   bt_out, bt_size, bt_artifacts, bt_result>>
    /\ UNCHANGED notbt

\* the match on the package type: a type without an arm on this host bails,
\* otherwise the type's producer runs and returns
BtProduce ==
    /\ bt_pc = "loop"
    /\ bt_k <= Len(bt_types)
    /\ IF HasProducer(bt_host, bt_types[bt_k])
       THEN /\ bt_invoked' = Append(bt_invoked, bt_types[bt_k])
            /\ \E o \in ProducerOutcomes :
                  bt_out' = [k |-> bt_k, kind |-> o.kind, paths |-> o.paths]
            /\ bt_pc' = "produced"
            /\ UNCHANGED bt_result
       ELSE /\ BtFail("Package type " \o bt_types[bt_k] \o " not supported on this platform")
            /\ UNCHANGED <<bt_invoked, bt_out>>
    /\ UNCHANGED <<bt_host, bt_has_makensis, bt_settings_types, bt_types, bt_k,
                   bt_size, bt_artifacts>>
    /\ UNCHANGED notbt

\* a loop that passes over a failing type instead of returning
BtProducedSkipsFailure ==
    /\ bt_pc = "produced"
    /\ IF bt_out.kind = "err"
       THEN /\ bt_pc' = "loop"
            /\ bt_k' = bt_k + 1
       ELSE /\ bt_pc' = "stat"
            /\ UNCHANGED bt_k
    /\ UNCHANGED <<bt_host, bt_has_makensis, bt_settings_types, bt_types,
                   bt_out, bt_size, bt_invoked, bt_artifacts, bt_result>>
    /\ UNCHANGED notbt

\* the `?` on the producer's result
BtProduced ==
    /\ bt_pc = "produced"
    /\ IF bt_out.kind = "err"
       THEN BtFail("bundle_project failed for " \o bt_types[bt_k])
       ELSE /\ bt_pc' = "stat"
            /\ UNCHANGED bt_result
    /\ UNCHANGED <<bt_host, bt_has_makensis, bt_settings_types, bt_types, bt_k,
                   bt_out, bt_size, bt_invoked, bt_artifacts>>
    /\ UNCHANGED notbt

\* a metadata loop that passes over a path it cannot stat
BtStatSkipsMissing ==
    /\ bt_pc = "stat"
    /\ bt_size' = ArtifactSize * Cardinality({i \in 1..Len(bt_out.paths) :
                                                bt_out.paths[i] # "missing"})
    /\ bt_pc' = "checksum"
    /\ UNCHANGED <<bt_host, bt_has_makensis, bt_settings_types, bt_types, bt_k,
                   bt_out, bt_invoked, bt_artifacts, bt_result>>
    /\ UNCHANGED notbt

\* the metadata loop: the first path that cannot be stat'ed fails the run,
\* otherwise size is the sum of the lengths
BtStat ==
    /\ bt_pc = "stat"
    /\ LET missing == {i \in 1..Len(bt_out.paths) : bt_out.paths[i] = "missing"}
           first == CHOOSE i \in missing : \A j \in missing : i <= j
       IN  IF missing # {}
           THEN /\ BtFail("reading artifact metadata: " \o ArtifactPath(bt_types[bt_k], first))
                /\ UNCHANGED bt_size
           ELSE /\ bt_size' = ArtifactSize * Len(bt_out.paths)
                /\ bt_pc' = "checksum"
                /\ UNCHANGED bt_result
    /\ UNCHANGED <<bt_host, bt_has_makensis, bt_settings_types, bt_types, bt_k,
                   bt_out, bt_invoked, bt_artifacts>>
    /\ UNCHANGED notbt

\* the checksum of the first path, or the bail for an empty path list; then
\* artifacts.push and the next iteration
BtChecksum ==
    /\ bt_pc = "checksum"
    /\ IF Len(bt_out.paths) = 0
       THEN /\ BtFail("Platform bundler for " \o bt_types[bt_k]
                        \o " returned no paths - this indicates a bundler bug")
            /\ UNCHANGED <<bt_artifacts, bt_k>>
       ELSE IF bt_out.paths[1] = "unreadable"
       THEN /\ BtFail("IO error: " \o ArtifactPath(bt_types[bt_k], 1))
            /\ UNCHANGED <<bt_artifacts, bt_k>>
       ELSE /\ bt_artifacts' = Append(bt_artifacts,
                   [package_type |-> bt_types[bt_k],
                    paths |-> ArtifactPaths(bt_types[bt_k], Len(bt_out.paths)),
                    size |-> bt_size,
                    checksum |-> "sha256(" \o ArtifactPath(bt_types[bt_k], 1) \o ")"])
            /\ bt_k' = bt_k + 1
            /\ bt_pc' = "loop"
            /\ UNCHANGED bt_result
    /\ UNCHANGED <<bt_host, bt_has_makensis, bt_settings_types, bt_types,
                   bt_out, bt_size, bt_invoked>>
    /\ UNCHANGED notbt

BtNext ==
    \/ BtBundle
    \/ BtLoopEnd
    \/ BtProduce
    \/ BtProduced
    \/ BtStat
    \/ BtChecksum

(***************************************************************************)
(* The command entry points: main (src/main.rs), cli::run (src/cli/mod.rs) *)
(* and commands::execute_command (src/cli/commands/mod.rs)                 *)
(***************************************************************************)
OutputPath == "/out/app_1.0.0_amd64.pkg"
BuiltArtifactPath == "/repo/target/release/bundle/app_1.0.0_amd64.pkg"

\* the values of --platform tried
PlatformArgs == {"deb", "dmg", "DMG", "nsis", "exe", "macos-bundle"}

\* what --repo-path names on disk
RepoStates == {"dir", "file", "missing"}

None == [some |-> FALSE, val |-> ""]
Some(v) == [some |-> TRUE, val |-> v]

\* Args::validate (the version is never empty and --output-dir is never
\* given in the runs modelled)
Validate(args) ==
    IF args.repo_path = "missing"
    THEN [ok |-> FALSE, reason |-> "Repository path does not exist: /repo"]
    ELSE IF args.repo_path # "dir"
    THEN [ok |-> FALSE, reason |-> "Repository path is not a directory: /repo"]
    ELSE IF args.platform \notin {"deb", "rpm", "dmg", "macos-bundle", "nsis", "appimage"}
    THEN [ok |-> FALSE, reason |-> "Invalid platform: " \o args.platform
             \o ". Valid platforms: deb, rpm, dmg, macos-bundle, nsis, appimage"]
    ELSE IF args.binary_name = ""
    THEN [ok |-> FALSE, reason |-> "Binary name cannot be empty"]
    ELSE [ok |-> TRUE, reason |-> ""]

\* parse_platform_string
ParsePlatformString(platform) ==
    LET p == ToLowercase(platform)
    IN  IF p = "deb" THEN [ok |-> TRUE, val |-> "Deb"]
        ELSE IF p = "rpm" THEN [ok |-> TRUE, val |-> "Rpm"]
        ELSE IF p = "appimage" THEN [ok |-> TRUE, val |-> "AppImage"]
        ELSE IF p = "dmg" THEN [ok |-> TRUE, val |-> "Dmg"]
        ELSE IF p = "exe" THEN [ok |-> TRUE, val |-> "Exe"]
        ELSE [ok |-> FALSE,
              val |-> "Unsupported platform '" \o platform
                        \o "'. Valid: deb, rpm, appimage, dmg, nsis"]

\* required_os_for_package
RequiredOsForPackage(package_type) ==
    IF package_type \in {"Deb", "Rpm", "AppImage"} THEN "linux"
    ELSE IF package_type \in {"Dmg", "MacOsBundle"} THEN "macos"
    ELSE "windows"

\* needs_docker
NeedsDocker(package_type, in_docker, current_os) ==
    IF in_docker THEN FALSE ELSE RequiredOsForPackage(package_type) # current_os

MnInit ==
    /\ mn_entry \in {"main", "execute_command"}
    /\ mn_pc = mn_entry
    /\ mn_args \in [platform : PlatformArgs,
                    repo_path : RepoStates,
                    binary_name : {"app", ""},
                    output_binary : {None, Some(OutputPath)}]
    /\ (mn_entry = "execute_command" =>
            mn_args.output_binary.some /\ mn_args.binary_name = "app")
    /\ (mn_entry = "main" => mn_args.repo_path = "dir" /\ mn_args.binary_name = "app")
    /\ mn_os \in {"linux", "macos"}
    /\ mn_in_docker \in BOOLEAN
    /\ (mn_entry = "main" => mn_os = "linux" /\ ~mn_in_docker)
    /\ mn_fs \in {{}, {OutputPath}}
    /\ mn_package_type = "none"
    /\ mn_artifact = ""
    /\ mn_verified = FALSE
    /\ mn_ret = [kind |-> "none"]
    /\ mn_exit = -1

MnIdle ==
    /\ mn_entry = "none"
    /\ mn_pc = "idle"
    /\ mn_args = [platform |-> "deb", repo_path |-> "dir", binary_name |-> "app",
                  output_binary |-> None]
    /\ mn_os = "linux"
    /\ mn_in_docker = FALSE
    /\ mn_fs = {}
    /\ mn_package_type = "none"
    /\ mn_artifact = ""
    /\ mn_verified = FALSE
    /\ mn_ret = [kind |-> "none"]
    /\ mn_exit = -1

\* the entry point returns
MnReturn(res) ==
    /\ mn_pc' = "returned"
    /\ mn_ret' = res

MnErr(command, reason) == MnReturn([kind |-> "err", command |-> command, reason |-> reason])

\* cli::run called from main: the arguments are parsed and dropped, Ok(0)
MnRun ==
    /\ mn_pc = "main"
    /\ MnReturn([kind |-> "ok", code |-> 0])
    /\ UNCHANGED <<mn_entry, mn_args, mn_os, mn_in_docker, mn_fs, mn_package_type,
                   mn_artifact, mn_verified, mn_exit>>
    /\ UNCHANGED notmn

\* main: process::exit with the code of Ok, or 1 for Err
MnProcessExit ==
    /\ mn_pc = "returned"
    /\ mn_entry = "main"
    /\ mn_exit' = IF mn_ret.kind = "ok" THEN mn_ret.code ELSE 1
    /\ mn_pc' = "exited"
    /\ UNCHANGED <<mn_entry, mn_args, mn_os, mn_in_docker, mn_fs, mn_package_type,
                   mn_artifact, mn_verified, mn_ret>>
    /\ UNCHANGED notmn

\* execute_command, step 1: args.validate()?
MnValidate ==
    /\ mn_pc = "execute_command"
    /\ IF Validate(mn_args).ok
       THEN /\ mn_pc' = "parse"
            /\ UNCHANGED mn_ret
       ELSE MnErr("InvalidArguments", Validate(mn_args).reason)
    /\ UNCHANGED <<mn_entry, mn_args, mn_os, mn_in_docker, mn_fs, mn_package_type,
                   mn_artifact, mn_verified, mn_exit>>
    /\ UNCHANGED notmn

\* step 2: parse_platform_string(&args.platform)?, then the needs_docker branch
MnParsePlatform ==
    /\ mn_pc = "parse"
    /\ LET r == ParsePlatformString(mn_args.platform)
       IN  IF r.ok
           THEN /\ mn_package_type' = r.val
                /\ mn_pc' = IF NeedsDocker(r.val, mn_in_docker, mn_os)
                            THEN "docker" ELSE "native"
                /\ UNCHANGED mn_ret
           ELSE /\ MnErr("InvalidArguments", r.val)
                /\ UNCHANGED mn_package_type
    /\ UNCHANGED <<mn_entry, mn_args, mn_os, mn_in_docker, mn_fs, mn_artifact,
                   mn_verified, mn_exit>>
    /\ UNCHANGED notmn

\* container path: ensure_image_built()? and container_bundler.bundle()?,
\* which answers the path of the artifact; the container may or may not
\* have written a file there
MnContainerBundle ==
    /\ mn_pc = "docker"
    /\ \/ /\ \E c \in {"docker build", "docker run"} : MnErr(c, "failed")
          /\ UNCHANGED <<mn_fs, mn_artifact>>
       \/ /\ mn_artifact' = mn_args.output_binary.val
          /\ \E written \in BOOLEAN :
                mn_fs' = IF written THEN mn_fs \cup {mn_args.output_binary.val} ELSE mn_fs
          /\ mn_pc' = "verify_artifact"
          /\ UNCHANGED mn_ret
    /\ UNCHANGED <<mn_entry, mn_args, mn_os, mn_in_docker, mn_package_type,
                   mn_verified, mn_exit>>
    /\ UNCHANGED notmn

\* container path: if !artifact_path.exists() Err, else Ok(0)
MnVerifyArtifact ==
    /\ mn_pc = "verify_artifact"
    /\ IF mn_artifact \in mn_fs
       THEN /\ mn_verified' = TRUE
            /\ MnReturn([kind |-> "ok", code |-> 0])
       ELSE /\ MnErr("docker container bundle",
                     "Container bundling completed but artifact not found at " \o mn_artifact)
            /\ UNCHANGED mn_verified
    /\ UNCHANGED <<mn_entry, mn_args, mn_os, mn_in_docker, mn_fs, mn_package_type,
                   mn_artifact, mn_exit>>
    /\ UNCHANGED notmn

\* native path: source resolution, manifest, cargo build and the binary
\* check, each of which can return an error
MnBuild ==
    /\ mn_pc = "native"
    /\ \/ \E c \in {"resolve source", "InvalidArguments", "cargo build"} : MnErr(c, "failed")
       \/ /\ mn_pc' = "bundle"
          /\ UNCHANGED mn_ret
    /\ UNCHANGED <<mn_entry, mn_args, mn_os, mn_in_docker, mn_fs, mn_package_type,
                   mn_artifact, mn_verified, mn_exit>>
    /\ UNCHANGED notmn

\* native path: Bundler::new(settings)?.bundle()?; no artifact path is Ok(1),
\* otherwise the first path is the one to move
MnBundle ==
    /\ mn_pc = "bundle"
    /\ \/ /\ MnErr("bundle", "failed")
          /\ UNCHANGED <<mn_fs, mn_artifact>>
       \/ /\ MnReturn([kind |-> "ok", code |-> 1])
          /\ UNCHANGED <<mn_fs, mn_artifact>>
       \/ /\ \E src \in {BuiltArtifactPath, mn_args.output_binary.val} :
                /\ mn_artifact' = src
                /\ mn_fs' = mn_fs \cup {src}
          /\ mn_pc' = "copy"
          /\ UNCHANGED mn_ret
    /\ UNCHANGED <<mn_entry, mn_args, mn_os, mn_in_docker, mn_package_type,
                   mn_verified, mn_exit>>
    /\ UNCHANGED notmn

\* native path: create_dir_all(parent)? and fs::copy(source, output)?
MnCopy ==
    /\ mn_pc = "copy"
    /\ \/ /\ \E c \in {"create output directory", "copy artifact"} : MnErr(c, "failed")
          /\ UNCHANGED mn_fs
       \/ /\ mn_artifact \in mn_fs
          /\ mn_fs' = mn_fs \cup {mn_args.output_binary.val}
          /\ mn_pc' = "remove"
          /\ UNCHANGED mn_ret
    /\ UNCHANGED <<mn_entry, mn_args, mn_os, mn_in_docker, mn_package_type,
                   mn_artifact, mn_verified, mn_exit>>
    /\ UNCHANGED notmn

\* native path: fs::remove_file(source)?
MnRemoveSource ==
    /\ mn_pc = "remove"
    /\ \/ /\ MnErr("remove source artifact", "failed")
          /\ UNCHANGED mn_fs
       \/ /\ mn_fs' = mn_fs \ {mn_artifact}
          /\ mn_pc' = "verify_output"
          /\ UNCHANGED mn_ret
    /\ UNCHANGED <<mn_entry, mn_args, mn_os, mn_in_docker, mn_package_type,
                   mn_artifact, mn_verified, mn_exit>>
    /\ UNCHANGED notmn

\* native path: if !output_path.exists() Err, else Ok(0)
MnVerifyOutput ==
    /\ mn_pc = "verify_output"
    /\ IF mn_args.output_binary.val \in mn_fs
       THEN /\ mn_verified' = TRUE
            /\ MnReturn([kind |-> "ok", code |-> 0])
       ELSE /\ MnErr("verify output",
                     "Move reported success but file does not exist at "
                        \o mn_args.output_binary.val)
            /\ UNCHANGED mn_verified
    /\ UNCHANGED <<mn_entry, mn_args, mn_os, mn_in_docker, mn_fs, mn_package_type,
                   mn_artifact, mn_exit>>
    /\ UNCHANGED notmn

MnNext ==
    \/ MnRun
    \/ MnProcessExit
    \/ MnValidate
    \/ MnParsePlatform
    \/ MnContainerBundle
    \/ MnVerifyArtifact
    \/ MnBuild
    \/ MnBundle
    \/ MnCopy
    \/ MnRemoveSource
    \/ MnVerifyOutput

(***************************************************************************)
(* The dylib closure engine (src/bundler/platform/macos/dylib.rs)          *)
(***************************************************************************)
MaxEdges == 4       \* most dependency edges among the binaries and libraries

\* three library paths; LibC is another library that carries LibA's file name
LibA == "/opt/homebrew/lib/libA.dylib"
LibB == "/opt/homebrew/lib/libB.dylib"
LibC == "/usr/local/lib/libA.dylib"
LibPaths == {LibA, LibB, LibC}

\* the order in which a Mach-O lists the libraries it loads
LibOrder == <<LibA, LibB, LibC>>

\* settings.binaries(): the main binary, then one more
Binaries == <<[name |-> "app", main |-> TRUE], [name |-> "helper", main |-> FALSE]>>

\* binary_path of bundle_dylib_dependencies
BinaryPath(binary) ==
    IF binary.main
    THEN "App.app/Contents/MacOS/" \o binary.name
    ELSE "App.app/Contents/Resources/" \o binary.name

BinaryPaths == {BinaryPath(Binaries[i]) : i \in 1..Len(Binaries)}

\* Path::file_name: the text after the last separator
FileName(path) ==
    LET seps == {i \in 1..Len(path) : SubSeq(path, i, i) = "/"}
    IN  IF seps = {} THEN path
        ELSE SubSeq(path, (CHOOSE i \in seps : \A j \in seps : j <= i) + 1, Len(path))

EndsWith(s, suf) ==
    /\ Len(suf) <= Len(s)
    /\ SubSeq(s, Len(s) - Len(suf) + 1, Len(s)) = suf

\* an is_system_dylib that does not know the @rpath prefix
IsSystemDylibWithoutRpath(path) ==
    \/ path = "self"
    \/ StartsWith(path, "/System/")
    \/ StartsWith(path, "/usr/lib/")
    \/ StartsWith(path, "@executable_path")
    \/ StartsWith(path, "@loader_path")

\* is_system_dylib
IsSystemDylib(path) ==
    \/ path = "self"
    \/ StartsWith(path, "/System/")
    \/ StartsWith(path, "/usr/lib/")
    \/ StartsWith(path, "@rpath")
    \/ StartsWith(path, "@executable_path")
    \/ StartsWith(path, "@loader_path")

\* the files of disk that exist
Existing(disk) == {p \in DOMAIN disk : disk[p].exists}

\* resolve_wildcard_path: the first existing match of
\* /opt/homebrew/Cellar/*/<rest> (the disks modelled hold at most one)
ResolveWildcardPath(path_str, disk) ==
    LET prefix == "/opt/homebrew/*/"
        cellar == "/opt/homebrew/Cellar/"
        rest == SubSeq(path_str, Len(prefix) + 1, Len(path_str))
        matches == {p \in Existing(disk) :
                       /\ StartsWith(p, cellar)
                       /\ EndsWith(p, "/" \o rest)
                       /\ Len(p) > Len(cellar) + Len(rest) + 1
                       /\ ~Contains(SubSeq(p, Len(cellar) + 1, Len(p) - Len(rest) - 1), "/")}
    IN  IF StartsWith(path_str, prefix) /\ matches # {}
        THEN [some |-> TRUE, val |-> CHOOSE p \in matches : TRUE]
        ELSE [some |-> FALSE, val |-> ""]

\* resolve_dylib_path
ResolveDylibPath(path_str, disk) ==
    IF Contains(path_str, "*")
    THEN IF ResolveWildcardPath(path_str, disk).some
         THEN [ok |-> TRUE, val |-> ResolveWildcardPath(path_str, disk).val]
         ELSE [ok |-> FALSE, val |-> "Cannot resolve wildcard dylib path: " \o path_str]
    ELSE IF ~StartsWith(path_str, "/")
    THEN [ok |-> FALSE, val |-> "Relative dylib path not supported: " \o path_str]
    ELSE IF path_str \notin Existing(disk)
    THEN [ok |-> FALSE, val |-> "Dylib not found: " \o path_str]
    ELSE [ok |-> TRUE, val |-> path_str]

\* get_dylib_dependencies: the libs of a thin Mach-O; nothing for a fat
\* binary (the second parse of the same buffer yields a fat object again) and
\* for a file that is no Mach-O; an error for a file that cannot be read or
\* parsed
GetDylibDependencies(file) ==
    IF ~file.exists THEN [ok |-> FALSE, val |-> <<>>]
    ELSE IF file.kind = "garbage" THEN [ok |-> FALSE, val |-> <<>>]
    ELSE IF file.kind = "thin" THEN [ok |-> TRUE, val |-> file.libs]
    ELSE [ok |-> TRUE, val |-> <<>>]

\* .into_iter().filter(|d| !is_system_dylib(d)).collect()
NonSystem(deps) == SelectSeq(deps, LAMBDA d : ~IsSystemDylib(d))

\* install_name_tool -change <dep> @rpath/<file name> for every non-system dep
RewriteLoadPaths(libs) ==
    [i \in 1..Len(libs) |->
        IF IsSystemDylib(libs[i]) THEN libs[i] ELSE "@rpath/" \o FileName(libs[i])]

\* ---- the trees a run starts from ----
DepSources == BinaryPaths \cup LibPaths

\* the load commands of a Mach-O whose non-system dependencies are deps
LibsOf(deps) ==
    <<"self", "/usr/lib/libSystem.B.dylib">> \o SelectSeq(LibOrder, LAMBDA l : l \in deps)

\* the disk for a set of dependency edges, with the libraries in absent
\* missing
DiskOf(edges, absent) ==
    [p \in DepSources |->
        [exists |-> p \notin absent,
         kind |-> "thin",
         libs |-> LibsOf({e[2] : e \in {x \in edges : x[1] = p}})]]

\* the library paths a run reaches: from the binaries' own non-system
\* dependencies, through the dependencies of every library that resolves
RECURSIVE ReachFrom(_, _, _)
ReachFrom(disk, seen, frontier) ==
    IF frontier = {} THEN seen
    ELSE LET p == CHOOSE x \in frontier : TRUE
             next == {d \in LibPaths :
                         /\ \E i \in 1..Len(disk[p].libs) : disk[p].libs[i] = d
                         /\ ResolveDylibPath(d, disk).ok}
         IN  ReachFrom(disk, seen \cup {p}, (frontier \cup next) \ (seen \cup {p}))

Reachable(disk) == ReachFrom(disk, {}, BinaryPaths) \ BinaryPaths

\* the dependency graphs tried: at most MaxEdges edges, none leaving a
\* library the run cannot reach (its load commands are never read)
DiskSet ==
    LET all == DepSources \X LibPaths
        small == {E \in SUBSET all : Cardinality(E) <= MaxEdges}
        disks == {DiskOf(E, absent) : E \in small, absent \in {{}, {LibC}}}
    IN  {d \in disks :
            \A p \in LibPaths : Len(d[p].libs) > 2 => p \in Reachable(d)}

DyInit ==
    /\ dy_pc = "start"
    /\ dy_disk \in DiskSet
    /\ dy_frameworks_dir = FALSE
    /\ dy_frameworks = {}
    /\ dy_bin = 1
    /\ dy_todo = <<>>
    /\ dy_stack = <<>>
    /\ dy_processed = {}
    /\ dy_copies = [l \in LibPaths |-> 0]
    /\ dy_binfixed = {}
    /\ dy_result = [kind |-> "none"]

DyIdle ==
    /\ dy_pc = "idle"
    /\ dy_disk = DiskOf({}, {})
    /\ dy_frameworks_dir = FALSE
    /\ dy_frameworks = {}
    /\ dy_bin = 1
    /\ dy_todo = <<>>
    /\ dy_stack = <<>>
    /\ dy_processed = {}
    /\ dy_copies = [l \in LibPaths |-> 0]
    /\ dy_binfixed = {}
    /\ dy_result = [kind |-> "none"]

\* the file at path as it is now: a binary whose load paths were rewritten
\* lists the rewritten ones
CurrentFile(path) ==
    IF path \in dy_binfixed
    THEN [dy_disk[path] EXCEPT !.libs = RewriteLoadPaths(@)]
    ELSE dy_disk[path]

\* a membership test that never finds the path
AlreadyProcessedNever(dylib_path) == FALSE

\* processed.contains(dylib_path)
AlreadyProcessed(dylib_path) == dylib_path \in dy_processed

\* an error leaves through every `?` up to the caller of
\* bundle_dylib_dependencies; the frames are dropped
DyFail(reason) ==
    /\ dy_pc' = "done"
    /\ dy_result' = [kind |-> "err", reason |-> reason]
    /\ dy_stack' = <<>>
    /\ dy_todo' = <<>>

\* create_dir_all(Frameworks) if it does not exist, and the empty processed set
DyCreateFrameworks ==
    /\ dy_pc = "start"
    /\ \/ /\ dy_frameworks_dir' = TRUE
          /\ dy_pc' = "binary"
          /\ UNCHANGED <<dy_result, dy_stack, dy_todo>>
       \/ /\ ~dy_frameworks_dir
          /\ DyFail("failed to create Frameworks directory")
          /\ UNCHANGED dy_frameworks_dir
    /\ UNCHANGED <<dy_disk, dy_frameworks, dy_bin, dy_processed, dy_copies, dy_binfixed>>
    /\ UNCHANGED notdy

\* the head of the loop over the binaries: the binary's non-system
\* dependencies, or Ok(()) after the last binary
DyBinary ==
    /\ dy_pc = "binary"
    /\ IF dy_bin > Len(Binaries)
       THEN /\ dy_pc' = "done"
            /\ dy_result' = [kind |-> "ok"]
            /\ UNCHANGED dy_todo
       ELSE LET deps == GetDylibDependencies(CurrentFile(BinaryPath(Binaries[dy_bin])))
            IN  IF deps.ok
                THEN /\ dy_todo' = NonSystem(deps.val)
                     /\ dy_pc' = "binary_deps"
                     /\ UNCHANGED dy_result
                ELSE /\ dy_pc' = "done"
                     /\ dy_result' = [kind |-> "err", reason |-> "failed to read binary"]
                     /\ UNCHANGED dy_todo
    /\ UNCHANGED <<dy_disk, dy_frameworks_dir, dy_frameworks, dy_bin, dy_stack,
                   dy_processed, dy_copies, dy_binfixed>>
    /\ UNCHANGED notdy

\* one dependency of the binary: resolve_dylib_path(..)? and the call of
\* bundle_dylib_and_deps
DyBinaryDep ==
    /\ dy_pc = "binary_deps"
    /\ dy_stack = <<>>
    /\ dy_todo # <<>>
    /\ LET r == ResolveDylibPath(Head(dy_todo), dy_disk)
       IN  IF r.ok
           THEN /\ dy_stack' = <<[path |-> r.val, stage |-> "enter", todo |-> <<>>]>>
                /\ dy_todo' = Tail(dy_todo)
                /\ UNCHANGED <<dy_pc, dy_result>>
           ELSE DyFail(r.val)
    /\ UNCHANGED <<dy_disk, dy_frameworks_dir, dy_frameworks, dy_bin, dy_processed,
                   dy_copies, dy_binfixed>>
    /\ UNCHANGED notdy

\* after the binary's dependencies: fix_binary_dylib_paths(..)? when
\* anything has been processed, then the next binary.  A failing -change
\* or a tool that cannot be run is an error.
DyBinaryFix ==
    /\ dy_pc = "binary_deps"
    /\ dy_stack = <<>>
    /\ dy_todo = <<>>
    /\ \/ /\ dy_processed # {}
          /\ dy_binfixed' = dy_binfixed \cup {BinaryPath(Binaries[dy_bin])}
          /\ dy_bin' = dy_bin + 1
          /\ dy_pc' = "binary"
          /\ UNCHANGED <<dy_result, dy_stack, dy_todo>>
       \/ /\ dy_processed # {}
          /\ DyFail("install_name_tool failed for " \o BinaryPath(Binaries[dy_bin]))
          /\ UNCHANGED <<dy_binfixed, dy_bin>>
       \/ /\ dy_processed = {}
          /\ dy_bin' = dy_bin + 1
          /\ dy_pc' = "binary"
          /\ UNCHANGED <<dy_result, dy_stack, dy_todo, dy_binfixed>>
    /\ UNCHANGED <<dy_disk, dy_frameworks_dir, dy_frameworks, dy_processed, dy_copies>>
    /\ UNCHANGED notdy

\* the entry of bundle_dylib_and_deps: return at once for a processed path;
\* otherwise insert it, copy it into Frameworks (which can fail) and read
\* its non-system dependencies
DyCall ==
    /\ dy_stack # <<>>
    /\ Head(dy_stack).stage = "enter"
    /\ LET path == Head(dy_stack).path
           deps == GetDylibDependencies(CurrentFile(path))
       IN  IF AlreadyProcessed(path)
           THEN /\ dy_stack' = Tail(dy_stack)
                /\ UNCHANGED <<dy_processed, dy_copies, dy_frameworks, dy_pc,
                               dy_result, dy_todo>>
           ELSE /\ dy_processed' = dy_processed \cup {path}
                /\ \/ /\ DyFail("failed to copy dylib to Frameworks")
                      /\ UNCHANGED <<dy_copies, dy_frameworks>>
                   \/ /\ dy_copies' = [dy_copies EXCEPT ![path] = @ + 1]
                      /\ dy_frameworks' =
                            {f \in dy_frameworks : f.name # FileName(path)}
                                \cup {[name |-> FileName(path), src |-> path,
                                       libs |-> dy_disk[path].libs]}
                      /\ IF deps.ok
                         THEN /\ dy_stack' = <<[Head(dy_stack) EXCEPT
                                                  !.stage = "deps",
                                                  !.todo = NonSystem(deps.val)]>>
                                                \o Tail(dy_stack)
                              /\ UNCHANGED <<dy_pc, dy_result, dy_todo>>
                         ELSE DyFail("failed to read binary")
    /\ UNCHANGED <<dy_disk, dy_frameworks_dir, dy_bin, dy_binfixed>>
    /\ UNCHANGED notdy

\* one dependency of the library on top: recurse when it resolves, pass over
\* it when it does not
DyDep ==
    /\ dy_stack # <<>>
    /\ Head(dy_stack).stage = "deps"
    /\ Head(dy_stack).todo # <<>>
    /\ Len(dy_stack) <= Cardinality(LibPaths)
    /\ LET top == Head(dy_stack)
           r == ResolveDylibPath(Head(top.todo), dy_disk)
           rest == <<[top EXCEPT !.todo = Tail(@)]>> \o Tail(dy_stack)
       IN  dy_stack' = IF r.ok
                       THEN <<[path |-> r.val, stage |-> "enter", todo |-> <<>>]>> \o rest
                       ELSE rest
    /\ UNCHANGED <<dy_pc, dy_disk, dy_frameworks_dir, dy_frameworks, dy_bin, dy_todo,
                   dy_processed, dy_copies, dy_binfixed, dy_result>>
    /\ UNCHANGED notdy

\* after the dependencies: fix_dylib_internal_paths(dest_path)? rewrites the
\* copy's load paths; a -change that fails is only warned about, a tool that
\* cannot be run is an error; then the call returns
DyFixAndReturn ==
    /\ dy_stack # <<>>
    /\ Head(dy_stack).stage = "deps"
    /\ Head(dy_stack).todo = <<>>
    /\ LET name == FileName(Head(dy_stack).path)
           has_deps == \E f \in dy_frameworks : f.name = name /\ NonSystem(f.libs) # <<>>
       IN  \/ /\ dy_frameworks' =
                    {IF f.name = name THEN [f EXCEPT !.libs = RewriteLoadPaths(@)] ELSE f :
                        f \in dy_frameworks}
              /\ dy_stack' = Tail(dy_stack)
              /\ UNCHANGED <<dy_pc, dy_result, dy_todo>>
           \/ /\ has_deps
              /\ dy_stack' = Tail(dy_stack)
              /\ UNCHANGED <<dy_pc, dy_result, dy_todo, dy_frameworks>>
           \/ /\ has_deps
              /\ DyFail("failed to run install_name_tool")
              /\ UNCHANGED dy_frameworks
    /\ UNCHANGED <<dy_disk, dy_frameworks_dir, dy_bin, dy_processed, dy_copies, dy_binfixed>>
    /\ UNCHANGED notdy

DyNext ==
    \/ DyCreateFrameworks
    \/ DyBinary
    \/ DyBinaryDep
    \/ DyBinaryFix
    \/ DyCall
    \/ DyDep
    \/ DyFixAndReturn

(***************************************************************************)
(* ArtifactManager::move_artifacts_to_final                                *)
(* (cli/docker/artifact_manager.rs).  The bundle directories are modelled  *)
(* as [kind, files], a file as [name, content].                            *)
(***************************************************************************)
WorkspacePath == "/ws"

\* workspace_path.join("target-temp-<uuid>") of one invocation
TempTargetDir == "/ws/target-temp-u1"

\* platform_type_to_string(platform).to_lowercase() of the platform moved
MvPlatformDir == "deb"

\* temp_target_dir.join("release").join("bundle").join(platform)
TempBundleDir(temp_target_dir) == temp_target_dir \o "/release/bundle/" \o MvPlatformDir

\* workspace_path.join("target").join("release").join("bundle").join(platform)
FinalBundleDir == WorkspacePath \o "/target/release/bundle/" \o MvPlatformDir

\* what the container wrote into the temporary bundle directory
ProducedFiles == {[name |-> "a.deb", content |-> "new"],
                  [name |-> "b.deb", content |-> "new"],
                  [name |-> "build.log", content |-> "new"]}

\* what an earlier run left in the final bundle directory
StaleFiles == {[name |-> "a.deb", content |-> "old"],
               [name |-> "c.deb", content |-> "old"]}

NoDir == [kind |-> "absent", files |-> {}]
Dir(files) == [kind |-> "dir", files |-> files]
RegularFile == [kind |-> "file", files |-> {}]

\* the artifact paths discover_artifacts hands over: the .deb files of the
\* temporary bundle directory, in the order the directory listed them
MvArtifactNames(files) == {f.name : f \in {g \in files : EndsWith(g.name, ".deb")}}

\* sequences that list every element of S once
Orderings(S) ==
    {s \in [1..Cardinality(S) -> S] : \A i, j \in 1..Cardinality(S) : s[i] = s[j] => i = j}

\* Path::strip_prefix(base): the remainder of path below base, if any
StripPrefix(path, base) ==
    IF path = base THEN Some("")
    ELSE IF StartsWith(path, base \o "/")
         THEN Some(SubSeq(path, Len(base) + 2, Len(path)))
         ELSE None

\* the closure of the final map: a path below temp_target_dir is re-rooted at
\* <workspace>/target, any other path is kept
RemapPath(path, temp_target_dir) ==
    LET rel == StripPrefix(path, temp_target_dir)
    IN  IF rel.some THEN WorkspacePath \o "/target/" \o rel.val ELSE path

\* rename(2) of a directory: the target may be missing or an empty
\* directory; a non-empty directory or a non-directory is refused
RenameUnix(from, to) ==
    IF from.kind # "dir" THEN [ok |-> FALSE, errno |-> "ENOENT"]
    ELSE IF to.kind = "file" THEN [ok |-> FALSE, errno |-> "ENOTDIR"]
    ELSE IF to.kind = "dir" /\ to.files # {} THEN [ok |-> FALSE, errno |-> "ENOTEMPTY"]
    ELSE [ok |-> TRUE, errno |-> ""]

\* MoveFileExW of a directory: any existing target is refused
RenameWindows(from, to) ==
    IF from.kind # "dir" THEN [ok |-> FALSE, errno |-> "ENOENT"]
    ELSE IF to.kind # "absent" THEN [ok |-> FALSE, errno |-> "EEXIST"]
    ELSE [ok |-> TRUE, errno |-> ""]

MvNoResult == [kind |-> "none", command |-> "", errno |-> "", paths |-> <<>>]

MvInit ==
    /\ mv_pc = "verify"
    /\ mv_os \in {"unix", "windows"}
    /\ \E files \in SUBSET ProducedFiles :
          /\ MvArtifactNames(files) # {}
          /\ mv_temp = Dir(files)
          /\ \E order \in Orderings(MvArtifactNames(files)) :
                mv_artifacts =
                    [i \in DOMAIN order |-> TempBundleDir(TempTargetDir) \o "/" \o order[i]]
    /\ \/ mv_final = NoDir /\ mv_parent \in BOOLEAN
       \/ /\ mv_final \in {Dir(files) : files \in SUBSET StaleFiles} \cup {RegularFile}
          /\ mv_parent = TRUE
    /\ mv_result = MvNoResult

MvIdle ==
    /\ mv_pc = "idle"
    /\ mv_os = "unix"
    /\ mv_artifacts = <<>>
    /\ mv_temp = NoDir
    /\ mv_final = NoDir
    /\ mv_parent = FALSE
    /\ mv_result = MvNoResult

\* return Err(ExecutionFailed { command, .. }) caused by errno
MvFail(command, errno) ==
    /\ mv_pc' = "returned"
    /\ mv_result' = [kind |-> "err", command |-> command, errno |-> errno, paths |-> <<>>]

\* verify_artifacts(&artifacts, runtime_config)?  -- the callee may refuse
MvVerify ==
    /\ mv_pc = "verify"
    /\ \/ mv_pc' = "mkdir" /\ UNCHANGED mv_result
       \/ MvFail("verify artifacts", "EINVAL")
    /\ UNCHANGED <<mv_os, mv_artifacts, mv_temp, mv_final, mv_parent>>
    /\ UNCHANGED notmv

\* create_dir_all(final_bundle_dir.parent())
MvCreateParent ==
    /\ mv_pc = "mkdir"
    /\ \/ /\ mv_parent' = TRUE
          /\ mv_pc' = IF mv_os = "unix" THEN "rename" ELSE "exists"
          /\ UNCHANGED mv_result
       \/ /\ MvFail("create bundle parent directory", "EIO")
          /\ UNCHANGED mv_parent
    /\ UNCHANGED <<mv_os, mv_artifacts, mv_temp, mv_final>>
    /\ UNCHANGED notmv

\* #[cfg(unix)]: one rename of the temporary bundle directory onto the final
MvRenameUnix ==
    /\ mv_pc = "rename" /\ mv_os = "unix"
    /\ LET r == RenameUnix(mv_temp, mv_final)
       IN  \/ /\ r.ok
              /\ mv_final' = mv_temp
              /\ mv_temp' = NoDir
              /\ mv_pc' = "remap"
              /\ UNCHANGED mv_result
           \/ /\ ~r.ok
              /\ MvFail("move artifacts to final location", r.errno)
              /\ UNCHANGED <<mv_temp, mv_final>>
           \/ /\ MvFail("move artifacts to final location", "EIO")
              /\ UNCHANGED <<mv_temp, mv_final>>
    /\ UNCHANGED <<mv_os, mv_artifacts, mv_parent>>
    /\ UNCHANGED notmv

\* #[cfg(windows)]: try_exists(final_bundle_dir)
MvTryExists ==
    /\ mv_pc = "exists" /\ mv_os = "windows"
    /\ \/ mv_final.kind # "absent" /\ mv_pc' = "remove"   \* Ok(true)
       \/ mv_final.kind = "absent" /\ mv_pc' = "rename"   \* Ok(false)
       \/ mv_pc' = "rename"                                \* Err(_): proceed
    /\ UNCHANGED <<mv_os, mv_artifacts, mv_temp, mv_final, mv_parent, mv_result>>
    /\ UNCHANGED notmv

\* #[cfg(windows)]: remove_dir_all(final_bundle_dir)
MvRemoveOld ==
    /\ mv_pc = "remove" /\ mv_os = "windows"
    /\ \/ /\ mv_final.kind = "dir"
          /\ mv_final' = NoDir
          /\ mv_pc' = "rename"
          /\ UNCHANGED mv_result
       \/ /\ mv_final.kind = "file"
          /\ MvFail("remove old bundle directory", "ENOTDIR")
          /\ UNCHANGED mv_final
       \/ /\ MvFail("remove old bundle directory", "EIO")
          /\ UNCHANGED mv_final
    /\ UNCHANGED <<mv_os, mv_artifacts, mv_temp, mv_parent>>
    /\ UNCHANGED notmv

\* #[cfg(windows)]: rename after the removal
MvRenameWindows ==
    /\ mv_pc = "rename" /\ mv_os = "windows"
    /\ LET r == RenameWindows(mv_temp, mv_final)
       IN  \/ /\ r.ok
              /\ mv_final' = mv_temp
              /\ mv_temp' = NoDir
              /\ mv_pc' = "remap"
              /\ UNCHANGED mv_result
           \/ /\ ~r.ok
              /\ MvFail("move artifacts to final location", r.errno)
              /\ UNCHANGED <<mv_temp, mv_final>>
           \/ /\ MvFail("move artifacts to final location", "EIO")
              /\ UNCHANGED <<mv_temp, mv_final>>
    /\ UNCHANGED <<mv_os, mv_artifacts, mv_parent>>
    /\ UNCHANGED notmv

\* the artifact paths re-rooted at the final location; Ok(artifacts)
MvRemap ==
    /\ mv_pc = "remap"
    /\ mv_pc' = "returned"
    /\ mv_result' = [kind |-> "ok", command |-> "", errno |-> "",
                     paths |-> [i \in DOMAIN mv_artifacts |->
                                    RemapPath(mv_artifacts[i], TempTargetDir)]]
    /\ UNCHANGED <<mv_os, mv_artifacts, mv_temp, mv_final, mv_parent>>
    /\ UNCHANGED notmv

MvNext ==
    \/ MvVerify
    \/ MvCreateParent
    \/ MvRenameUnix
    \/ MvTryExists
    \/ MvRemoveOld
    \/ MvRenameWindows
    \/ MvRemap

(***************************************************************************)
(* Two invocations of ContainerBundler::bundle_platform running            *)
(* concurrently on one workspace (cli/docker/bundler.rs 62-138 with        *)
(* prepare_temp_directory and the ArtifactManager calls).  Each container  *)
(* run succeeds and the filesystem raises no error of its own, so whatever *)
(* fails here fails because of the other invocation.                       *)
(***************************************************************************)
Invocations == {1, 2}

\* the values Uuid::new_v4 can return
Uuids == {"u1", "u2", "u3"}

CcPlatforms == {"deb", "rpm"}

\* format!("kodegen-bundle-{}", build_uuid)
ContainerName(uuid) == "kodegen-bundle-" \o uuid

\* workspace_path.join(format!("target-temp-{}", build_uuid))
TempTargetDirOf(uuid) == WorkspacePath \o "/target-temp-" \o uuid

\* <root>/release/bundle/<platform>
BundleDirUnder(root, platform) == root \o "/release/bundle/" \o platform

CcNoResult == [kind |-> "none", errno |-> "", paths |-> <<>>, holds |-> {}]

CcInit ==
    /\ cc_os \in {"unix", "windows"}
    /\ \E ps \in [Invocations -> CcPlatforms] :
          cc_inv = [i \in Invocations |->
                       [pc |-> "start", uuid |-> "", platform |-> ps[i],
                        artifacts |-> <<>>, result |-> CcNoResult]]
    /\ cc_temp = [u \in Uuids |-> [exists |-> FALSE, bundle |-> NoDir]]
    /\ cc_final = [p \in CcPlatforms |-> NoDir]
    /\ cc_access = {}

CcIdle ==
    /\ cc_os = "unix"
    /\ cc_inv = [i \in Invocations |->
                    [pc |-> "idle", uuid |-> "", platform |-> "deb",
                     artifacts |-> <<>>, result |-> CcNoResult]]
    /\ cc_temp = [u \in Uuids |-> [exists |-> FALSE, bundle |-> NoDir]]
    /\ cc_final = [p \in CcPlatforms |-> NoDir]
    /\ cc_access = {}

\* the uuids already drawn: a version 4 uuid is 122 random bits, a repeated
\* draw is not an outcome the model considers
DrawnUuids == {cc_inv[i].uuid : i \in Invocations} \ {""}

FreshUuids == Uuids \ DrawnUuids

\* the invocation uses a path below target-temp-<uuid>
Touch(i, uuid) == cc_access' = cc_access \cup {[inv |-> i, uuid |-> uuid]}

\* return Err(..) out of move_artifacts_to_final: `?` in bundle_platform
CcFail(i, errno) ==
    cc_inv' = [cc_inv EXCEPT ![i].pc = "returned",
                             ![i].result = [kind |-> "err", errno |-> errno,
                                            paths |-> <<>>, holds |-> {}]]

\* Uuid::new_v4, the container name and prepare_temp_directory
CcPrepare(i) ==
    /\ cc_inv[i].pc = "start"
    /\ \E u \in FreshUuids :
          /\ cc_inv' = [cc_inv EXCEPT ![i].pc = "run", ![i].uuid = u]
          /\ cc_temp' = [cc_temp EXCEPT ![u].exists = TRUE]
          /\ Touch(i, u)
    /\ UNCHANGED <<cc_os, cc_final>>
    /\ UNCHANGED notcc

\* run_container: the container writes its package into the bind-mounted
\* temporary target directory and exits 0
CcRunContainer(i) ==
    /\ cc_inv[i].pc = "run"
    /\ LET u == cc_inv[i].uuid
           p == cc_inv[i].platform
       IN  /\ cc_temp' = [cc_temp EXCEPT ![u].bundle =
                             Dir({[name |-> "app." \o p, content |-> u]})]
           /\ Touch(i, u)
    /\ cc_inv' = [cc_inv EXCEPT ![i].pc = "discover"]
    /\ UNCHANGED <<cc_os, cc_final>>
    /\ UNCHANGED notcc

\* discover_artifacts on the invocation's own temporary target directory
CcDiscover(i) ==
    /\ cc_inv[i].pc = "discover"
    /\ LET u == cc_inv[i].uuid
           dir == BundleDirUnder(TempTargetDirOf(u), cc_inv[i].platform)
           names == {f.name : f \in cc_temp[u].bundle.files}
       IN  /\ \E order \in Orderings(names) :
                 cc_inv' = [cc_inv EXCEPT
                               ![i].pc = IF cc_os = "unix" THEN "rename" ELSE "exists",
                               ![i].artifacts = [k \in DOMAIN order |-> dir \o "/" \o order[k]]]
           /\ Touch(i, u)
    /\ UNCHANGED <<cc_os, cc_temp, cc_final>>
    /\ UNCHANGED notcc

\* move_artifacts_to_final, #[cfg(unix)]: rename onto the final directory
CcRenameUnix(i) ==
    /\ cc_inv[i].pc = "rename" /\ cc_os = "unix"
    /\ LET u == cc_inv[i].uuid
           p == cc_inv[i].platform
           r == RenameUnix(cc_temp[u].bundle, cc_final[p])
       IN  /\ Touch(i, u)
           /\ IF r.ok
              THEN /\ cc_final' = [cc_final EXCEPT ![p] = cc_temp[u].bundle]
                   /\ cc_temp' = [cc_temp EXCEPT ![u].bundle = NoDir]
                   /\ cc_inv' = [cc_inv EXCEPT ![i].pc = "cleanup"]
              ELSE /\ CcFail(i, r.errno)
                   /\ UNCHANGED <<cc_temp, cc_final>>
    /\ UNCHANGED cc_os
    /\ UNCHANGED notcc

\* move_artifacts_to_final, #[cfg(windows)]: try_exists(final_bundle_dir)
CcTryExists(i) ==
    /\ cc_inv[i].pc = "exists" /\ cc_os = "windows"
    /\ cc_inv' = [cc_inv EXCEPT ![i].pc =
                     IF cc_final[cc_inv[i].platform].kind # "absent"
                     THEN "remove" ELSE "rename"]
    /\ UNCHANGED <<cc_os, cc_temp, cc_final, cc_access>>
    /\ UNCHANGED notcc

\* move_artifacts_to_final, #[cfg(windows)]: remove_dir_all(final_bundle_dir)
CcRemoveOld(i) ==
    /\ cc_inv[i].pc = "remove" /\ cc_os = "windows"
    /\ LET p == cc_inv[i].platform
       IN  IF cc_final[p].kind = "dir"
           THEN /\ cc_final' = [cc_final EXCEPT ![p] = NoDir]
                /\ cc_inv' = [cc_inv EXCEPT ![i].pc = "rename"]
           ELSE /\ CcFail(i, "ENOENT")
                /\ UNCHANGED cc_final
    /\ UNCHANGED <<cc_os, cc_temp, cc_access>>
    /\ UNCHANGED notcc

\* move_artifacts_to_final, #[cfg(windows)]: rename after the removal
CcRenameWindows(i) ==
    /\ cc_inv[i].pc = "rename" /\ cc_os = "windows"
    /\ LET u == cc_inv[i].uuid
           p == cc_inv[i].platform
           r == RenameWindows(cc_temp[u].bundle, cc_final[p])
       IN  /\ Touch(i, u)
           /\ IF r.ok
              THEN /\ cc_final' = [cc_final EXCEPT ![p] = cc_temp[u].bundle]
                   /\ cc_temp' = [cc_temp EXCEPT ![u].bundle = NoDir]
                   /\ cc_inv' = [cc_inv EXCEPT ![i].pc = "cleanup"]
              ELSE /\ CcFail(i, r.errno)
                   /\ UNCHANGED <<cc_temp, cc_final>>
    /\ UNCHANGED cc_os
    /\ UNCHANGED notcc

\* what the file at path holds in the final bundle directory now
FinalContent(path, platform) ==
    LET here == {f \in cc_final[platform].files :
                    path = BundleDirUnder(WorkspacePath \o "/target", platform)
                               \o "/" \o f.name}
    IN  IF here = {} THEN "missing" ELSE (CHOOSE f \in here : TRUE).content

\* the paths re-rooted, cleanup_temp_directory, Ok(artifacts)
CcCleanupAndReturn(i) ==
    /\ cc_inv[i].pc = "cleanup"
    /\ LET u == cc_inv[i].uuid
           paths == [k \in DOMAIN cc_inv[i].artifacts |->
                        RemapPath(cc_inv[i].artifacts[k], TempTargetDirOf(u))]
       IN  /\ cc_temp' = [cc_temp EXCEPT ![u] = [exists |-> FALSE, bundle |-> NoDir]]
           /\ Touch(i, u)
           /\ cc_inv' = [cc_inv EXCEPT
                 ![i].pc = "returned",
                 ![i].result =
                     [kind |-> "ok", errno |-> "", paths |-> paths,
                      holds |-> {FinalContent(paths[k], cc_inv[i].platform) :
                                    k \in DOMAIN paths}]]
    /\ UNCHANGED <<cc_os, cc_final>>
    /\ UNCHANGED notcc

CcNext ==
    \/ \E i \in Invocations : CcPrepare(i)
    \/ \E i \in Invocations : CcRunContainer(i)
    \/ \E i \in Invocations : CcDiscover(i)
    \/ \E i \in Invocations : CcRenameUnix(i)
    \/ \E i \in Invocations : CcTryExists(i)
    \/ \E i \in Invocations : CcRemoveOld(i)
    \/ \E i \in Invocations : CcRenameWindows(i)
    \/ \E i \in Invocations : CcCleanupAndReturn(i)

(***************************************************************************)
(* calculate_directory_sha256 (bundler/builder/checksum.rs).  A path is    *)
(* the sequence of its components.  SHA-256 is modelled as an injective    *)
(* function of the hashed bytes.                                           *)
(***************************************************************************)
\* the most regular files and symlinks a tree holds
MaxFiles == 3

\* the relative paths a tree can hold (no path is below another): one name
\* is the beginning of another, and a file beside the directory d carries
\* d's name followed by a byte below the separator
RelPaths == {<<"a">>, <<"ab">>, <<"d", "a">>, <<"d", "c">>, <<"d-b">>}

\* the directories a tree can be placed at
Roots == {<<"r">>, <<"b", "t">>}

Contents == {"x", "bx"}

\* the trees: a file per chosen relative path, possibly a symlink
Trees ==
    UNION {{[p \in paths |-> [kind |-> IF p \in links THEN "symlink" ELSE "file",
                              content |-> c[p]]] :
                c \in [paths -> Contents], links \in SUBSET (paths \cap {<<"ab">>})} :
           paths \in {ps \in SUBSET RelPaths : Cardinality(ps) <= MaxFiles}}

\* the bytes of the names, in ascending order of their value
NameBytes == "-/" \o LowerLetters

\* the rank of a byte
CharRank(c) == CHOOSE i \in 1..Len(NameBytes) : SubSeq(NameBytes, i, i) = c

RECURSIVE StrLess(_, _)
\* Ord for OsStr: bytewise
StrLess(a, b) ==
    IF Len(b) = 0 THEN FALSE
    ELSE IF Len(a) = 0 THEN TRUE
    ELSE IF SubSeq(a, 1, 1) = SubSeq(b, 1, 1)
         THEN StrLess(SubSeq(a, 2, Len(a)), SubSeq(b, 2, Len(b)))
         ELSE CharRank(SubSeq(a, 1, 1)) < CharRank(SubSeq(b, 1, 1))

RECURSIVE PathLess(_, _)
\* Ord for PathBuf: component by component
PathLess(p, q) ==
    IF Len(q) = 0 THEN FALSE
    ELSE IF Len(p) = 0 THEN TRUE
    ELSE IF p[1] = q[1] THEN PathLess(Tail(p), Tail(q))
         ELSE StrLess(p[1], q[1])

\* the elements of a sequence
Range(s) == {s[i] : i \in DOMAIN s}

\* the collected entries left in the order the walk yielded them
SortByPathKeepsOrder(entries) == entries

\* entries.sort_by_key(|e| e.path().to_path_buf())
SortByPath(entries) ==
    CHOOSE s \in Orderings(Range(entries)) :
        \A i, j \in DOMAIN s : i < j => PathLess(s[i], s[j])

\* entry.path().strip_prefix(dir_path)
StripPrefixComponents(path, base) ==
    IF Len(path) >= Len(base) /\ SubSeq(path, 1, Len(base)) = base
    THEN [ok |-> TRUE, val |-> SubSeq(path, Len(base) + 1, Len(path))]
    ELSE [ok |-> FALSE, val |-> <<>>]

\* rel_path.to_string_lossy()
PathString(path) == Join(path, "/")

\* format!("{:x}", hasher.finalize()) of a hasher fed with stream
Sha256Hex(stream) == "sha256(" \o stream \o ")"

HsNoResult == [kind |-> "none", digest |-> ""]

HsInit ==
    /\ hs_pc = "walk"
    /\ hs_root \in Roots
    /\ hs_tree \in Trees
    /\ hs_walk = <<>>
    /\ hs_entries = <<>>
    /\ hs_k = 1
    /\ hs_stream = ""
    /\ hs_result = HsNoResult

HsIdle ==
    /\ hs_pc = "idle"
    /\ hs_root = <<>>
    /\ hs_tree = <<>>
    /\ hs_walk = <<>>
    /\ hs_entries = <<>>
    /\ hs_k = 1
    /\ hs_stream = ""
    /\ hs_result = HsNoResult

\* WalkDir::new(dir_path).follow_links(false), filtered to regular files,
\* collected in the order the directories listed their entries
HsWalk ==
    /\ hs_pc = "walk"
    /\ \E order \in Orderings({hs_root \o p : p \in
                                 {q \in DOMAIN hs_tree : hs_tree[q].kind = "file"}}) :
          /\ hs_walk' = order
          /\ hs_entries' = order
    /\ hs_pc' = "sort"
    /\ UNCHANGED <<hs_root, hs_tree, hs_k, hs_stream, hs_result>>
    /\ UNCHANGED noths

\* entries.sort_by_key(..); Sha256::new()
HsSort ==
    /\ hs_pc = "sort"
    /\ hs_entries' = SortByPath(hs_entries)
    /\ hs_pc' = "hash"
    /\ UNCHANGED <<hs_root, hs_tree, hs_walk, hs_k, hs_stream, hs_result>>
    /\ UNCHANGED noths

\* one iteration of the loop: the relative path, then the file's content
HsHashEntry ==
    /\ hs_pc = "hash" /\ hs_k <= Len(hs_entries)
    /\ LET rel == StripPrefixComponents(hs_entries[hs_k], hs_root)
           withPath == IF rel.ok THEN hs_stream \o PathString(rel.val) ELSE hs_stream
       IN  \/ /\ hs_stream' = withPath \o hs_tree[rel.val].content
              /\ hs_k' = hs_k + 1
              /\ UNCHANGED <<hs_pc, hs_result>>
           \/ /\ hs_pc' = "done"         \* File::open or read fails
              /\ hs_result' = [kind |-> "err", digest |-> ""]
              /\ UNCHANGED <<hs_k, hs_stream>>
    /\ UNCHANGED <<hs_root, hs_tree, hs_walk, hs_entries>>
    /\ UNCHANGED noths

\* Ok(format!("{:x}", hasher.finalize()))
HsFinish ==
    /\ hs_pc = "hash" /\ hs_k > Len(hs_entries)
    /\ hs_pc' = "done"
    /\ hs_result' = [kind |-> "ok", digest |-> Sha256Hex(hs_stream)]
    /\ UNCHANGED <<hs_root, hs_tree, hs_walk, hs_entries, hs_k, hs_stream>>
    /\ UNCHANGED noths

HsNext ==
    \/ HsWalk
    \/ HsSort
    \/ HsHashEntry
    \/ HsFinish

(***************************************************************************)
(* ArtifactManager::discover_artifacts with format_no_artifacts_error      *)
(* (cli/docker/artifact_manager.rs).  A directory entry is                 *)
(* [name, kind, size]; the installer type the match names Nsis is the      *)
(* package type Exe.                                                       *)
(***************************************************************************)
\* the most entries the bundle directory holds
MaxEntries == 2

\* the least size of an artifact: metadata.len() < 1024 is skipped
MinArtifactSize == 1024

EntryNames == {"app.deb", "APP.DEB", "app.rpm", "AppRun", "App.AppImage",
               "app.exe", "app.dmg", "App.app"}

EntryKinds == {"file", "dir", "symlink"}

EntrySizes == {MinArtifactSize - 1, MinArtifactSize}

DirEntries == [name : EntryNames, kind : EntryKinds, size : EntrySizes]

RECURSIVE ListingsUpTo(_)
\* the directories of at most n entries, no name twice
ListingsUpTo(n) ==
    IF n = 0 THEN {{}}
    ELSE LET smaller == ListingsUpTo(n - 1)
         IN  smaller \cup
                 UNION {{es \cup {e} : e \in {d \in DirEntries :
                                                  \A f \in es : f.name # d.name}} :
                        es \in smaller}

\* Path::extension: the text after the last dot of the file name, none when
\* there is no dot or the only dot leads the name
Extension(name) ==
    LET dots == {i \in 2..Len(name) : SubSeq(name, i, i) = "."}
    IN  IF dots = {} THEN None
        ELSE Some(SubSeq(name, (CHOOSE i \in dots : \A j \in dots : j <= i) + 1, Len(name)))

\* the is_valid match on the lower-cased extension
IsValidArtifactName(platform, name) ==
    LET ext == Extension(name)
        extension == IF ext.some THEN Some(ToLowercase(ext.val)) ELSE None
    IN  CASE platform = "Deb" -> extension = Some("deb")
          [] platform = "Rpm" -> extension = Some("rpm")
          [] platform = "AppImage" -> ~extension.some \/ extension = Some("appimage")
          [] platform = "Exe" -> extension = Some("exe")
          [] platform = "Dmg" -> extension = Some("dmg")
          [] platform = "MacOsBundle" -> extension = Some("app")

\* temp_target_dir/release/bundle/<platform_str.to_lowercase()>
DsBundleDir == BundleDirUnder(TempTargetDir, ToLowercase(ds_platform))

\* one line of the directory listing of format_no_artifacts_error
ListingLine(e) ==
    IF e.kind = "dir" THEN "  [DIR]  " \o e.name
    ELSE "  [FILE] " \o e.name \o " (" \o ToString(e.size) \o " bytes)"

DsNoResult == [kind |-> "none", command |-> "", listing |-> {}, paths |-> {}]

DsInit ==
    /\ ds_pc = "exists"
    /\ ds_platform \in PackageTypes
    /\ \/ ds_dir = [exists |-> FALSE, entries |-> {}]
       \/ \E es \in ListingsUpTo(MaxEntries) : ds_dir = [exists |-> TRUE, entries |-> es]
    /\ ds_todo = {}
    /\ ds_artifacts = {}
    /\ ds_result = DsNoResult

DsIdle ==
    /\ ds_pc = "idle"
    /\ ds_platform = "Deb"
    /\ ds_dir = [exists |-> FALSE, entries |-> {}]
    /\ ds_todo = {}
    /\ ds_artifacts = {}
    /\ ds_result = DsNoResult

\* return Err(ExecutionFailed { command, reason }); the reason's listing
DsFail(command, listing) ==
    /\ ds_pc' = "done"
    /\ ds_result' = [kind |-> "err", command |-> command, listing |-> listing,
                     paths |-> {}]

\* try_exists(bundle_dir).unwrap_or(false), then read_dir(bundle_dir)
DsOpenDir ==
    /\ ds_pc = "exists"
    /\ \/ /\ ~ds_dir.exists
          /\ DsFail("find bundle directory", {})
          /\ UNCHANGED ds_todo
       \/ /\ ds_dir.exists
          /\ ds_pc' = "scan"
          /\ ds_todo' = ds_dir.entries
          /\ UNCHANGED ds_result
       \/ /\ ds_dir.exists
          /\ DsFail("read bundle directory", {})
          /\ UNCHANGED ds_todo
    /\ UNCHANGED <<ds_platform, ds_dir, ds_artifacts>>
    /\ UNCHANGED notds

\* one iteration of the loop over the entries
DsScanEntry ==
    /\ ds_pc = "scan"
    /\ \E e \in ds_todo :
          /\ ds_todo' = ds_todo \ {e}
          /\ \/ /\ ds_artifacts' =
                      IF /\ e.kind = "file"
                         /\ ~(e.size < MinArtifactSize)
                         /\ IsValidArtifactName(ds_platform, e.name)
                      THEN ds_artifacts \cup {DsBundleDir \o "/" \o e.name}
                      ELSE ds_artifacts
                /\ UNCHANGED <<ds_pc, ds_result>>
             \/ /\ DsFail("read file metadata", {})
                /\ UNCHANGED ds_artifacts
    /\ UNCHANGED <<ds_platform, ds_dir>>
    /\ UNCHANGED notds

\* the end of the loop: no artifact is the "find artifacts" error, with the
\* directory listing unless the directory has no entry; else Ok(artifacts)
DsFinish ==
    /\ ds_pc = "scan" /\ ds_todo = {}
    /\ IF ds_artifacts = {}
       THEN DsFail("find artifacts", {ListingLine(e) : e \in ds_dir.entries})
       ELSE /\ ds_pc' = "done"
            /\ ds_result' = [kind |-> "ok", command |-> "", listing |-> {},
                             paths |-> ds_artifacts]
    /\ UNCHANGED <<ds_platform, ds_dir, ds_todo, ds_artifacts>>
    /\ UNCHANGED notds

DsNext ==
    \/ DsOpenDir
    \/ DsScanEntry
    \/ DsFinish

(***************************************************************************)
(* The macOS producers: dmg::bundle_project with find_or_create_app_bundle *)
(* (bundler/platform/macos/dmg), run by the orchestrator's loop over       *)
(* MacOsBundle and Dmg.  app::bundle_project is not part of the given      *)
(* source; it is modelled by its contract.                                 *)
(***************************************************************************)
MacTypes == {"MacOsBundle", "Dmg"}

\* what can be at the expected .app path
AppPathStates == {"absent", "dir", "file"}

DmInit ==
    /\ dm_pc = "loop"
    /\ dm_types \in SeqUpTo(MacTypes, MaxTypes)
    /\ dm_k = 1
    /\ dm_app \in AppPathStates
    /\ dm_app_calls = 0
    /\ dm_opts \in [customize : BOOLEAN, sign : BOOLEAN]
    /\ dm_result = "none"

DmIdle ==
    /\ dm_pc = "idle"
    /\ dm_types = <<>>
    /\ dm_k = 1
    /\ dm_app = "absent"
    /\ dm_app_calls = 0
    /\ dm_opts = [customize |-> FALSE, sign |-> FALSE]
    /\ dm_result = "none"

\* the run returns Err: `?`
DmFail ==
    /\ dm_pc' = "returned"
    /\ dm_result' = "err"

\* app::bundle_project is invoked and returns: Ok with the .app directory it
\* built at bundle/macos/<ProductName>.app, Ok with no path, or Err
AppBundleProject(outcome) ==
    /\ outcome \in {"ok", "ok_no_path", "err"}
    /\ dm_app_calls' = dm_app_calls + 1
    /\ dm_app' = IF outcome = "ok" THEN "dir" ELSE dm_app

\* the for loop is over: Ok(artifacts)
DmLoopEnd ==
    /\ dm_pc = "loop" /\ dm_k > Len(dm_types)
    /\ dm_pc' = "returned"
    /\ dm_result' = "ok"
    /\ UNCHANGED <<dm_types, dm_k, dm_app, dm_app_calls, dm_opts>>
    /\ UNCHANGED notdm

\* the MacOsBundle arm: the app producer, then the artifact record
DmAppType ==
    /\ dm_pc = "loop" /\ dm_k <= Len(dm_types)
    /\ dm_types[dm_k] = "MacOsBundle"
    /\ \E outcome \in {"ok", "ok_no_path", "err"} :
          /\ AppBundleProject(outcome)
          /\ IF outcome = "ok"
             THEN /\ dm_k' = dm_k + 1
                  /\ UNCHANGED <<dm_pc, dm_result>>
             ELSE /\ DmFail
                  /\ UNCHANGED dm_k
    /\ UNCHANGED <<dm_types, dm_opts>>
    /\ UNCHANGED notdm

\* the Dmg arm: dmg::bundle_project is entered
DmDmgType ==
    /\ dm_pc = "loop" /\ dm_k <= Len(dm_types)
    /\ dm_types[dm_k] = "Dmg"
    /\ dm_pc' = "find"
    /\ UNCHANGED <<dm_types, dm_k, dm_app, dm_app_calls, dm_opts, dm_result>>
    /\ UNCHANGED notdm

\* a find_or_create_app_bundle that builds the .app whatever is on disk
DmFindAlwaysCreates ==
    /\ dm_pc = "find"
    /\ \E outcome \in {"ok", "ok_no_path", "err"} :
          /\ AppBundleProject(outcome)
          /\ IF outcome = "ok"
             THEN dm_pc' = "create_dmg" /\ UNCHANGED dm_result
             ELSE DmFail
    /\ UNCHANGED <<dm_types, dm_k, dm_opts>>
    /\ UNCHANGED notdm

\* find_or_create_app_bundle
DmFindOrCreate ==
    /\ dm_pc = "find"
    /\ IF dm_app = "dir"       \* expected_path.exists() && expected_path.is_dir()
       THEN /\ dm_pc' = "create_dmg"
            /\ UNCHANGED <<dm_app, dm_app_calls, dm_result>>
       ELSE \E outcome \in {"ok", "ok_no_path", "err"} :
               /\ AppBundleProject(outcome)
               /\ IF outcome = "ok"
                  THEN dm_pc' = "create_dmg" /\ UNCHANGED dm_result
                  ELSE DmFail
    /\ UNCHANGED <<dm_types, dm_k, dm_opts>>
    /\ UNCHANGED notdm

\* steps 2 and 3 of dmg::bundle_project: the output directory and create_dmg
DmCreateDmg ==
    /\ dm_pc = "create_dmg"
    /\ \/ /\ dm_pc' = IF dm_opts.customize THEN "customize" ELSE "sign"
          /\ UNCHANGED dm_result
       \/ DmFail
    /\ UNCHANGED <<dm_types, dm_k, dm_app, dm_app_calls, dm_opts>>
    /\ UNCHANGED notdm

\* step 4: apply_dmg_customizations and convert_dmg_to_compressed
DmCustomize ==
    /\ dm_pc = "customize"
    /\ \/ dm_pc' = "sign" /\ UNCHANGED dm_result
       \/ DmFail
    /\ UNCHANGED <<dm_types, dm_k, dm_app, dm_app_calls, dm_opts>>
    /\ UNCHANGED notdm

\* step 5 and Ok(vec![dmg_path]); the orchestrator records the artifact
DmSignAndReturn ==
    /\ dm_pc = "sign"
    /\ \/ /\ dm_pc' = "loop"
          /\ dm_k' = dm_k + 1
          /\ UNCHANGED dm_result
       \/ /\ dm_opts.sign
          /\ DmFail
          /\ UNCHANGED dm_k
    /\ UNCHANGED <<dm_types, dm_app, dm_app_calls, dm_opts>>
    /\ UNCHANGED notdm

DmNext ==
    \/ DmLoopEnd
    \/ DmAppType
    \/ DmDmgType
    \/ DmFindOrCreate
    \/ DmCreateDmg
    \/ DmCustomize
    \/ DmSignAndReturn


(***************************************************************************)
(* bundle_dylib_dependencies called again on the bundle a first call left  *)
(***************************************************************************)
RrIdle ==
    /\ rr_run = 1
    /\ rr_first = [taken |-> FALSE]

\* the caller runs bundle_dylib_dependencies once more after an Ok: a new
\* processed set and the loop from the first binary, on the disk, the
\* Frameworks directory and the binaries as the first run left them
RrRunAgain ==
    /\ dy_pc = "done"
    /\ dy_result.kind = "ok"
    /\ rr_run = 1
    /\ rr_run' = 2
    /\ rr_first' = [taken |-> TRUE, frameworks |-> dy_frameworks,
                    copies |-> dy_copies, binfixed |-> dy_binfixed]
    /\ dy_pc' = "start"
    /\ dy_bin' = 1
    /\ dy_processed' = {}
    /\ dy_result' = [kind |-> "none"]
    /\ UNCHANGED <<dy_disk, dy_frameworks_dir, dy_frameworks, dy_todo, dy_stack,
                   dy_copies, dy_binfixed>>
    /\ UNCHANGED <<bpvars, rcvars, btvars, mnvars, mvvars, ccvars, hsvars, dsvars, dmvars,
                   imvars>>

RrNext ==
    \/ DyNext
    \/ RrRunAgain

(***************************************************************************)
(* The dylib engine on bundles whose binaries are thin or fat Mach-O files *)
(***************************************************************************)
\* the disk with the binaries of the given kinds; libs of a fat file are the
\* load commands of its first architecture slice
WithKinds(disk, kinds) ==
    [p \in DOMAIN disk |->
        IF p \in DOMAIN kinds THEN [disk[p] EXCEPT !.kind = kinds[p]] ELSE disk[p]]

FatInit ==
    /\ dy_pc = "start"
    /\ \E d \in DiskSet, kinds \in [BinaryPaths -> {"thin", "fat"}] :
          dy_disk = WithKinds(d, kinds)
    /\ dy_frameworks_dir = FALSE
    /\ dy_frameworks = {}
    /\ dy_bin = 1
    /\ dy_todo = <<>>
    /\ dy_stack = <<>>
    /\ dy_processed = {}
    /\ dy_copies = [l \in LibPaths |-> 0]
    /\ dy_binfixed = {}
    /\ dy_result = [kind |-> "none"]

(***************************************************************************)
(* ensure_image_built (cli/docker/image/manager.rs) with                   *)
(* is_image_up_to_date and get_image_age_days (image/staleness.rs) and     *)
(* build_docker_image (image/builder.rs).  Times are whole seconds and     *)
(* whole days, as num_seconds and num_days yield them.                     *)
(***************************************************************************)
STALENESS_TOLERANCE_SECS == 2

\* the age above which an up-to-date image is rebuilt
MaxImageAgeDays == 7

\* Dockerfile modification time minus image creation time, in seconds
DiffSecs == {-3, 0, 2, 3}

\* now minus image creation time, in days; negative for a creation time in
\* the future
AgeDays == {-1, 0, 7, 8}

NoImage == [exists |-> FALSE, diff_secs |-> 0, age_days |-> 0]

ImNoResult == [kind |-> "none"]

ImInit ==
    /\ im_pc = "start"
    /\ im_force \in BOOLEAN
    /\ im_dockerfile \in BOOLEAN
    /\ im_image \in {NoImage}
            \cup [exists : {TRUE}, diff_secs : DiffSecs, age_days : AgeDays]
    /\ im_calls = <<>>
    /\ im_built = FALSE
    /\ im_age = [known |-> FALSE, days |-> 0]
    /\ im_result = ImNoResult

ImIdle ==
    /\ im_pc = "idle"
    /\ im_force = FALSE
    /\ im_dockerfile = FALSE
    /\ im_image = NoImage
    /\ im_calls = <<>>
    /\ im_built = FALSE
    /\ im_age = [known |-> FALSE, days |-> 0]
    /\ im_result = ImNoResult

ImReturn(res) ==
    /\ im_pc' = "returned"
    /\ im_result' = res

ImErr(command) == ImReturn([kind |-> "err", command |-> command])

\* check_docker_responsive().await?: docker version within 3 seconds
ImCheckResponsive ==
    /\ im_pc = "start"
    /\ im_calls' = Append(im_calls, "docker version")
    /\ \E outcome \in {"ok", "exit_nonzero", "cannot_execute", "timeout"} :
          IF outcome = "ok"
          THEN im_pc' = "responsive" /\ UNCHANGED im_result
          ELSE ImErr("docker version")
    /\ UNCHANGED <<im_force, im_dockerfile, im_image, im_built, im_age>>
    /\ UNCHANGED notim

\* the Dockerfile must exist; force_rebuild goes straight to the build
ImCheckDockerfile ==
    /\ im_pc = "responsive"
    /\ IF ~im_dockerfile THEN ImErr("check_dockerfile")
       ELSE /\ im_pc' = IF im_force THEN "build" ELSE "lookup"
            /\ UNCHANGED im_result
    /\ UNCHANGED <<im_force, im_dockerfile, im_image, im_calls, im_built, im_age>>
    /\ UNCHANGED notim

\* docker images -q <name> within 10 seconds; an id of at least 12
\* characters means the image exists.  The exit status is not looked at: a
\* failing command prints no id.
ImLookup ==
    /\ im_pc = "lookup"
    /\ im_calls' = Append(im_calls, "docker images")
    /\ \E outcome \in {"output", "exit_nonzero", "cannot_execute", "timeout"} :
          IF outcome \in {"cannot_execute", "timeout"}
          THEN ImErr("docker images")
          ELSE /\ im_pc' = IF outcome = "output" /\ im_image.exists
                           THEN "up_to_date" ELSE "build"
               /\ UNCHANGED im_result
    /\ UNCHANGED <<im_force, im_dockerfile, im_image, im_built, im_age>>
    /\ UNCHANGED notim

\* is_image_up_to_date: Ok(false) when the Dockerfile was modified more
\* than the tolerance after the image was created, Ok(true) otherwise, Err
\* when docker inspect, the timestamp or the Dockerfile metadata fails
IsImageUpToDate(image, outcome) ==
    IF outcome # "ok" THEN [ok |-> FALSE, val |-> FALSE]
    ELSE [ok |-> TRUE, val |-> ~(image.diff_secs > STALENESS_TOLERANCE_SECS)]

\* match is_image_up_to_date(..): Ok(true) goes on to the age, Ok(false)
\* and Err rebuild
ImUpToDate ==
    /\ im_pc = "up_to_date"
    /\ im_calls' = Append(im_calls, "docker inspect")
    /\ \E outcome \in {"ok", "inspect_failed", "bad_timestamp", "stat_failed"} :
          LET r == IsImageUpToDate(im_image, outcome)
          IN  im_pc' = IF r.ok /\ r.val THEN "age" ELSE "build"
    /\ UNCHANGED <<im_force, im_dockerfile, im_image, im_built, im_age, im_result>>
    /\ UNCHANGED notim

\* get_image_age_days: the whole days since the creation, 0 for a creation
\* time in the future, Err when docker inspect or the timestamp fails
GetImageAgeDays(image, outcome) ==
    IF outcome # "ok" THEN [ok |-> FALSE, val |-> 0]
    ELSE [ok |-> TRUE, val |-> IF image.age_days < 0 THEN 0 ELSE image.age_days]

\* if let Ok(age_days) = get_image_age_days(..) && age_days > 7 { rebuild };
\* otherwise return Ok(())
ImAge ==
    /\ im_pc = "age"
    /\ im_calls' = Append(im_calls, "docker inspect")
    /\ \E outcome \in {"ok", "inspect_failed", "bad_timestamp"} :
          LET r == GetImageAgeDays(im_image, outcome)
          IN  /\ im_age' = [known |-> r.ok, days |-> r.val]
              /\ IF r.ok /\ r.val > MaxImageAgeDays
                 THEN im_pc' = "build" /\ UNCHANGED im_result
                 ELSE ImReturn([kind |-> "ok"])
    /\ UNCHANGED <<im_force, im_dockerfile, im_image, im_built>>
    /\ UNCHANGED notim

\* build_docker_image: docker build --pull -t <name>; Ok only for exit 0
ImBuild ==
    /\ im_pc = "build"
    /\ im_calls' = Append(im_calls, "docker build")
    /\ \E outcome \in {"exit_zero", "exit_nonzero", "cannot_execute", "wait_failed", "timeout"} :
          IF outcome = "exit_zero"
          THEN /\ im_built' = TRUE
               /\ im_image' = [exists |-> TRUE, diff_secs |-> -3, age_days |-> 0]
               /\ ImReturn([kind |-> "ok"])
          ELSE /\ ImErr("docker build")
               /\ UNCHANGED <<im_built, im_image>>
    /\ UNCHANGED <<im_force, im_dockerfile, im_age>>
    /\ UNCHANGED notim

ImNext ==
    \/ ImCheckResponsive
    \/ ImCheckDockerfile
    \/ ImLookup
    \/ ImUpToDate
    \/ ImAge
    \/ ImBuild

(***************************************************************************)
(* Specifications                                                          *)
(***************************************************************************)
PlatformInit == BpInit /\ RcIdle /\ BtIdle /\ MnIdle /\ DyIdle /\ MvIdle /\ CcIdle /\ HsIdle /\ DsIdle /\ DmIdle /\ RrIdle /\ ImIdle

SpecPlatform == PlatformInit /\ [][BpNext]_vars

RunInit == RcInit /\ BpIdle /\ BtIdle /\ MnIdle /\ DyIdle /\ MvIdle /\ CcIdle /\ HsIdle /\ DsIdle /\ DmIdle /\ RrIdle /\ ImIdle

RunNext ==
    \/ RcNext
    \/ ChildNext

\* run_container with its child.  The runtime keeps polling run_container's
\* own futures and its timers fire, and the kernel completes a stopped write
\* that can complete (weak fairness); nothing is assumed of what the child
\* chooses to do.
SpecRun ==
    /\ RunInit /\ [][RunNext]_vars
    /\ WF_vars(RcNext)
    /\ WF_vars(\E p \in Pipes : ChildWriteResume(p))

BundleInit == BtInit /\ BpIdle /\ RcIdle /\ MnIdle /\ DyIdle /\ MvIdle /\ CcIdle /\ HsIdle /\ DsIdle /\ DmIdle /\ RrIdle /\ ImIdle

\* one call of Bundler::bundle
SpecBundle == BundleInit /\ [][BtNext]_vars

MainInit == MnInit /\ BpIdle /\ RcIdle /\ BtIdle /\ DyIdle /\ MvIdle /\ CcIdle /\ HsIdle /\ DsIdle /\ DmIdle /\ RrIdle /\ ImIdle

\* one run of the binary (main) or one call of execute_command
SpecMain == MainInit /\ [][MnNext]_vars

DylibInit == DyInit /\ BpIdle /\ RcIdle /\ BtIdle /\ MnIdle /\ MvIdle /\ CcIdle /\ HsIdle /\ DsIdle /\ DmIdle /\ RrIdle /\ ImIdle

\* one call of bundle_dylib_dependencies; the call keeps running while it
\* can take a step (weak fairness)
SpecDylib == DylibInit /\ [][DyNext]_vars /\ WF_vars(DyNext)

MoveInit == MvInit /\ BpIdle /\ RcIdle /\ BtIdle /\ MnIdle /\ DyIdle /\ CcIdle /\ HsIdle /\ DsIdle /\ DmIdle /\ RrIdle /\ ImIdle

\* one call of move_artifacts_to_final, on either build target
SpecMove == MoveInit /\ [][MvNext]_vars

ConcurrentInit == CcInit /\ BpIdle /\ RcIdle /\ BtIdle /\ MnIdle /\ DyIdle /\ MvIdle /\ HsIdle /\ DsIdle /\ DmIdle /\ RrIdle /\ ImIdle

\* two bundle_platform invocations interleaved at their filesystem operations
SpecConcurrent == ConcurrentInit /\ [][CcNext]_vars

ChecksumInit ==
    HsInit /\ BpIdle /\ RcIdle /\ BtIdle /\ MnIdle /\ DyIdle /\ MvIdle /\ CcIdle /\ DsIdle /\ DmIdle /\ RrIdle /\ ImIdle

\* one call of calculate_directory_sha256 on any tree, root and listing order
SpecChecksum == ChecksumInit /\ [][HsNext]_vars

DiscoverInit ==
    DsInit /\ BpIdle /\ RcIdle /\ BtIdle /\ MnIdle /\ DyIdle /\ MvIdle /\ CcIdle /\ HsIdle /\ DmIdle /\ RrIdle /\ ImIdle

\* one call of discover_artifacts on any bundle directory
SpecDiscover == DiscoverInit /\ [][DsNext]_vars

MacInit ==
    DmInit /\ BpIdle /\ RcIdle /\ BtIdle /\ MnIdle /\ DyIdle /\ MvIdle /\ CcIdle /\ HsIdle /\ DsIdle /\ RrIdle /\ ImIdle

\* one bundling run over macOS package types
SpecMac == MacInit /\ [][DmNext]_vars

RerunInit == DyInit /\ BpIdle /\ RcIdle /\ BtIdle /\ MnIdle /\ MvIdle /\ CcIdle /\ HsIdle /\ DsIdle /\ DmIdle /\ RrIdle /\ ImIdle

SpecRerun == RerunInit /\ [][RrNext]_vars

FatBundleInit == FatInit /\ BpIdle /\ RcIdle /\ BtIdle /\ MnIdle /\ MvIdle /\ CcIdle /\ HsIdle /\ DsIdle /\ DmIdle /\ RrIdle /\ ImIdle

SpecFat == FatBundleInit /\ [][DyNext]_vars

ImageInit == ImInit /\ BpIdle /\ RcIdle /\ BtIdle /\ MnIdle /\ DyIdle /\ MvIdle /\ CcIdle /\ HsIdle /\ DsIdle /\ DmIdle /\ RrIdle

SpecImage == ImageInit /\ [][ImNext]_vars

(***************************************************************************)
(* Claims about the container failure triage and the cleanup guard         *)
(***************************************************************************)
\* the run bundle_platform is diagnosing failed: the container exited non-zero
RunFailed == bp_run.kind = "exited" /\ bp_run.exit # 0

\* is_oom_failure has returned
OomDecided == RunFailed /\ bp_pc \in {"format", "returned"}

\* C6: on every exit path of bundle_platform the container removal has run
\* exactly once when the call returns, and while the failure diagnosis is
\* under way (stderr scan, runtime status query, error formatting) it has
\* not run yet.
C6_CleanupOnceAfterDiagnosis ==
    /\ (bp_pc = "returned" => bp_cleanups = 1)
    /\ (bp_pc \in {"failed", "query", "format"} => bp_cleanups = 0 /\ bp_container = "exists")

\* C6 witness: a failed run was diagnosed with two runtime status queries
\* and the call returned with the container removed.
C6_Witness ==
    /\ bp_pc = "returned"
    /\ RunFailed
    /\ hcf_inspects = 2
    /\ bp_cleanups = 1
    /\ bp_container = "removed"

\* The out-of-memory phrase markers the specification names.
KnownOomPhrases == {"OOMKilled", "out of memory", "OutOfMemoryError", "Cannot allocate memory"}

\* stderr holds one of the known phrases, in any letter case
HasKnownOomPhrase(stderr_str) ==
    \E m \in KnownOomPhrases : Contains(ToLowercase(stderr_str), ToLowercase(m))

\* C7: when stderr holds no out-of-memory marker and the runtime's OOMKilled
\* flag is false or its query failed, is_oom_failure answers false, whatever
\* the exit code.
C7_NoEvidenceNeverOom ==
    ( /\ OomDecided
      /\ ~HasKnownOomPhrase(Join(bp_run.stderr, "\n"))
      /\ (bp_oomkilled = FALSE \/ hcf_status.kind \in {"io_err", "exit_fail"}) )
    => hcf_is_oom = FALSE

\* C8: when stderr holds a known out-of-memory phrase in any letter case,
\* is_oom_failure answers true and decides before any runtime query.
C8_PhraseAnyCaseIsOom ==
    ( /\ OomDecided
      /\ HasKnownOomPhrase(Join(bp_run.stderr, "\n")) )
    => (hcf_is_oom = TRUE /\ hcf_decided_at = 0)

\* C9: a failed run returns the OOM error iff is_oom_failure answered true,
\* else the signal-kill error iff the exit code is 137, else the generic
\* error; and the three reason texts differ pairwise for the run's exit code
\* and stderr.
C9_ThreeDistinctErrors ==
    (bp_pc = "returned" /\ RunFailed) =>
        LET oom(st) == FormatOomReason(bp_platform, bp_run.stderr, bp_run.exit, st,
                                       MemoryLimit, MemorySwap, HostMemoryGb)
            kill == FormatSigkillReason(bp_run.stderr)
            gen == FormatGenericReason(bp_run.exit, bp_run.stderr)
        IN  /\ bp_result.kind = "err"
            /\ \A st \in BOOLEAN : oom(st) # kill /\ oom(st) # gen
            /\ kill # gen
            /\ (hcf_is_oom = TRUE) <=> (\E st \in BOOLEAN : bp_result.reason = oom(st))
            /\ (hcf_is_oom = FALSE /\ bp_run.exit = 137) <=> (bp_result.reason = kill)
            /\ (hcf_is_oom = FALSE /\ bp_run.exit # 137) <=> (bp_result.reason = gen)

\* C9 witness: a run that exited 137 with OOM evidence returned the OOM error.
C9_Witness ==
    /\ bp_pc = "returned"
    /\ RunFailed
    /\ bp_run.exit = 137
    /\ hcf_is_oom = TRUE
    /\ StartsWith(bp_result.reason, "Container ran out of memory")

(***************************************************************************)
(* Claims about run_container                                              *)
(***************************************************************************)
\* C3: whatever the child does, run_container eventually returns.
C3_RunContainerReturns == <>(rc_pc = "returned")

\* C4: once the timeout has fired, the kill has been attempted before the
\* grace wait, the grace wait lasts at most the grace period, and the call
\* returns the timed-out error, never a ContainerRunResult.
C4_TimeoutYieldsTimedOutError ==
    rc_timed_out =>
        /\ rc_kill # "none"
        /\ rc_grace <= GraceTicks
        /\ rc_pc \in {"grace", "returned"}
        /\ (rc_pc = "returned" => rc_result = ExecutionFailed("docker run", TimedOutReason))

\* C4 witness: the kill failed, the child outlived the whole grace period,
\* and the call returned.
C4_Witness ==
    /\ rc_pc = "returned"
    /\ rc_timed_out
    /\ rc_kill = "failed"
    /\ ch_state = "running"
    /\ rc_grace = GraceTicks

\* C5: a child stopped in a write to a full pipe can always be served at
\* once (the reader of that pipe is being polled whatever the state of the
\* other pipe, or the pipe's read end is gone and the write fails), so it is
\* never stopped for ever; and the exit status is waited for only after both
\* readers ended.
C5_BothPipesDrained ==
    /\ [](\A p \in Pipes :
             ChildBlockedOn(p) => (ENABLED RcReadLine(p) \/ ENABLED ChildWriteResume(p)))
    /\ []((rc_pc \in {"wait", "grace"} \/ (rc_pc = "returned" /\ rc_result.kind = "ok"))
             => \A p \in Pipes : rc_reader[p] = "done")
    /\ \A p \in Pipes : (ChildBlockedOn(p) ~> ~ChildBlockedOn(p))

\* C5 witness: the child is stopped on a full stderr pipe while stdout is
\* open, empty and still being read.
C5_Witness ==
    /\ ChildBlockedOn("stderr")
    /\ rc_reader["stdout"] = "reading"
    /\ ch_pipe["stdout"].wopen
    /\ Len(ch_pipe["stdout"].buf) = 0

(***************************************************************************)
(* Claims about bundle_types                                               *)
(***************************************************************************)
\* the output of the current type's producer makes the iteration fail: the
\* producer returned Err, a returned path cannot be stat'ed, no path was
\* returned, or the first path cannot be read for the checksum
FailingOutcome(o) ==
    \/ o.kind = "err"
    \/ /\ o.kind = "ok"
       /\ \/ \E i \in 1..Len(o.paths) : o.paths[i] = "missing"
          \/ Len(o.paths) = 0
          \/ o.paths[1] = "unreadable"

\* C2: once the producer of the k-th requested type has failed (or the stat
\* or checksum of its output must fail) the loop never reaches a later type:
\* the producers invoked are those of the first k requested types only, and
\* what bundle_types returns is the error of that failure with no artifact
\* list.
C2_FailFast ==
    FailingOutcome(bt_out) =>
        /\ bt_k = bt_out.k
        /\ bt_pc \in {"produced", "stat", "checksum", "returned"}
        /\ bt_invoked = SubSeq(bt_types, 1, bt_out.k)
        /\ bt_pc = "returned" =>
              /\ bt_result.kind = "err"
              /\ DOMAIN bt_result = {"kind", "reason"}
              /\ bt_out.kind = "err"
                    => bt_result.reason = "bundle_project failed for " \o bt_types[bt_out.k]

\* C2 witness: the producer of the second requested type failed after the
\* first type's artifact had been built, and the run returned the error.
C2_Witness ==
    /\ bt_pc = "returned"
    /\ bt_out.kind = "err"
    /\ bt_out.k = 2
    /\ Len(bt_artifacts) = 1
    /\ Len(bt_types) > 2
    /\ bt_result.kind = "err"

(***************************************************************************)
(* Claims about the exit code contract                                     *)
(***************************************************************************)
\* C1: when the process has exited with code 0 for a request that names an
\* output path, a file exists at that path and one of the existence checks
\* has passed.
C1_ExitZeroImpliesOutput ==
    (mn_pc = "exited" /\ mn_exit = 0 /\ mn_args.output_binary.some) =>
        /\ mn_args.output_binary.val \in mn_fs
        /\ mn_verified

(***************************************************************************)
(* Claims about the dylib closure engine                                   *)
(***************************************************************************)
\* the call on top of the stack meets a library that is already processed
SecondMeeting ==
    /\ dy_stack # <<>>
    /\ Head(dy_stack).stage = "enter"
    /\ Head(dy_stack).path \in dy_processed

\* C10: for every dependency graph tried, cyclic and diamond-shaped ones
\* included, bundle_dylib_dependencies returns; no library path is ever
\* copied twice; a run that returns Ok has copied every library path it can
\* reach exactly once and no other; the recursion is never deeper than the
\* number of libraries; and a call that meets a processed library returns
\* without a copy and without a recursive call.
C10_TerminatesCopiesOnce ==
    /\ <>(dy_pc = "done")
    /\ [](\A l \in LibPaths : dy_copies[l] <= 1)
    /\ [](Len(dy_stack) <= Cardinality(LibPaths) + 1)
    /\ []((dy_pc = "done" /\ dy_result.kind = "ok") =>
             \A l \in LibPaths :
                dy_copies[l] = IF l \in Reachable(dy_disk) THEN 1 ELSE 0)
    /\ [][SecondMeeting =>
             /\ dy_stack' = Tail(dy_stack)
             /\ UNCHANGED <<dy_copies, dy_frameworks, dy_processed>>]_vars

\* C10 witness: a run over a graph with the cycle A -> B -> A returned Ok
\* with A, B and C copied once each.
C10_Witness ==
    /\ dy_pc = "done"
    /\ dy_result.kind = "ok"
    /\ LibB \in Reachable([dy_disk EXCEPT ![BinaryPath(Binaries[1])].libs = <<>>,
                                          ![BinaryPath(Binaries[2])].libs = <<LibA>>,
                                          ![LibB].libs = <<>>])
    /\ \E i \in 1..Len(dy_disk[LibB].libs) : dy_disk[LibB].libs[i] = LibA
    /\ \A l \in LibPaths : dy_copies[l] = 1

\* the non-system dependencies listed by the file at path, as on disk before
\* the run
NonSystemDepsOf(path) == NonSystem(dy_disk[path].libs)

\* C11: a run that returns Ok has left no non-system dependency of a binary
\* or of a bundled library unbundled: every such dependency resolves and is
\* in the processed set.
C11_UnresolvedIsError ==
    (dy_pc = "done" /\ dy_result.kind = "ok") =>
        \A f \in BinaryPaths \cup dy_processed :
            \A i \in 1..Len(NonSystemDepsOf(f)) :
                LET r == ResolveDylibPath(NonSystemDepsOf(f)[i], dy_disk)
                IN  r.ok /\ r.val \in dy_processed

(***************************************************************************)
(* Claims about move_artifacts_to_final                                    *)
(***************************************************************************)
\* the final bundle directory holds this temporary artifact path's file, as produced
MovedIntact(path) ==
    [name |-> FileName(path), content |-> "new"] \in mv_final.files

\* C12: when move_artifacts_to_final has returned Ok, the temporary bundle
\* directory is gone, the final bundle directory holds every produced
\* artifact with its produced content, and every returned path names a file
\* of the final bundle directory; and a final bundle directory that already
\* holds an earlier run's artifacts is replaced, never a reason to refuse the
\* move.
C12_MoveReplacesDestination ==
    mv_pc = "returned" =>
        /\ mv_result.kind = "ok" =>
              /\ mv_temp.kind = "absent"
              /\ mv_final.kind = "dir"
              /\ \A i \in DOMAIN mv_artifacts : MovedIntact(mv_artifacts[i])
              /\ \A i \in DOMAIN mv_result.paths :
                    /\ StartsWith(mv_result.paths[i], FinalBundleDir \o "/")
                    /\ MovedIntact(mv_result.paths[i])
        /\ mv_result.kind = "err" => mv_result.errno # "ENOTEMPTY"

(***************************************************************************)
(* Claims about concurrent bundle_platform invocations                     *)
(***************************************************************************)
\* the two invocations have drawn their uuids
BothNamed == \A i \in Invocations : cc_inv[i].uuid # ""

\* C13: two concurrent bundle_platform invocations on one workspace have
\* different container names and different temporary directories, each
\* touches only its own temporary directory, and neither is made to fail or
\* to return anything but its own artifacts by the other: an invocation that
\* has returned has returned Ok, and the paths it returned held its own
\* container's files when it returned.
C13_ConcurrentRunsIndependent ==
    /\ BothNamed =>
          /\ ContainerName(cc_inv[1].uuid) # ContainerName(cc_inv[2].uuid)
          /\ TempTargetDirOf(cc_inv[1].uuid) # TempTargetDirOf(cc_inv[2].uuid)
    /\ \A a \in cc_access : a.uuid = cc_inv[a.inv].uuid
    /\ \A i \in Invocations :
          cc_inv[i].pc = "returned" =>
              /\ cc_inv[i].result.kind = "ok"
              /\ cc_inv[i].result.holds = {cc_inv[i].uuid}

(***************************************************************************)
(* Claims about the directory checksum                                     *)
(***************************************************************************)
\* the (relative path, content) pairs of a tree's regular files
RegularPairs(tree) ==
    {[rel |-> p, content |-> tree[p].content] :
        p \in {q \in DOMAIN tree : tree[q].kind = "file"}}

RECURSIVE StreamOfPairs(_)
\* a byte stream determined by a set of (relative path, content) pairs alone:
\* the pairs by ascending relative path, each as path then content
StreamOfPairs(pairs) ==
    IF pairs = {} THEN ""
    ELSE LET first == CHOOSE a \in pairs :
                          \A b \in pairs \ {a} : PathLess(a.rel, b.rel)
         IN  PathString(first.rel) \o first.content
                 \o StreamOfPairs(pairs \ {first})

ExpectedExtension(platform) ==
    CASE platform = "Deb" -> "deb"
      [] platform = "Rpm" -> "rpm"
      [] platform = "AppImage" -> "appimage"
      [] platform = "Exe" -> "exe"
      [] platform = "Dmg" -> "dmg"
      [] platform = "MacOsBundle" -> "app"

\* the entry is a regular file of at least 1024 bytes whose name ends in the
\* requested type's extension, in any case
Qualifies(e, platform) ==
    /\ e.kind = "file"
    /\ e.size >= 1024
    /\ EndsWith(ToLowercase(e.name), "." \o ExpectedExtension(platform))

\* C15: discover_artifacts returns Ok only with a non-empty list of paths,
\* each a regular file of at least 1024 bytes directly in the bundle
\* directory with the requested type's extension; and when the directory
\* was read to its end and no entry qualifies, it returns an error that
\* lists every entry of the directory.
C15_DiscoverOnlyValidArtifacts ==
    ds_pc = "done" =>
        /\ ds_result.kind = "ok" =>
              /\ ds_result.paths # {}
              /\ \A path \in ds_result.paths :
                    \E e \in ds_dir.entries :
                        /\ path = DsBundleDir \o "/" \o e.name
                        /\ Qualifies(e, ds_platform)
        /\ (ds_todo = {} /\ ds_dir.exists /\ ds_result.command \in {"", "find artifacts"}
                /\ \A e \in ds_dir.entries : ~Qualifies(e, ds_platform)) =>
              /\ ds_result.kind = "err"
              /\ \A e \in ds_dir.entries :
                    \E line \in ds_result.listing : Contains(line, e.name)

(***************************************************************************)
(* Claims about the artifact list of bundle_types                          *)
(***************************************************************************)
\* C16: a list returned by bundle_types holds at most one BundledArtifact
\* per package type, also when the requested sequence names a type twice.
C16_AtMostOnePerType ==
    (bt_pc = "returned" /\ bt_result.kind = "ok") =>
        \A i, j \in DOMAIN bt_result.artifacts :
            bt_result.artifacts[i].package_type = bt_result.artifacts[j].package_type
                => i = j

\* the producer's result in hand is Ok with a path that is missing on disk
ProducedMissingPath ==
    bt_out.kind = "ok" /\ \E i \in DOMAIN bt_out.paths : bt_out.paths[i] = "missing"

\* the producer's result in hand is Ok with no path at all
ProducedNoPath == bt_out.kind = "ok" /\ bt_out.paths = <<>>

\* bundle_types has returned the error value of the 'bundler bug' bail
BundlerBugError ==
    /\ bt_pc = "returned" /\ bt_result.kind = "err"
    /\ Contains(bt_result.reason, "bundler bug")

\* C17: every recorded BundledArtifact has at least one path, and a record
\* is pushed only for a producer result all of whose paths were stat'ed;
\* once the metadata and checksum steps are past, a producer that returned
\* Ok with no path has made the run return the 'bundler bug' error, and one
\* that returned Ok with a missing path has made it return an error that is
\* not that one.
C17_ArtifactPathsStated ==
    /\ [](\A i \in DOMAIN bt_artifacts : Len(bt_artifacts[i].paths) >= 1)
    /\ [][bt_artifacts' # bt_artifacts =>
              /\ bt_out.kind = "ok" /\ bt_out.paths # <<>>
              /\ ~ProducedMissingPath
              /\ bt_artifacts' = Append(bt_artifacts, bt_artifacts'[Len(bt_artifacts')])
              /\ Len(bt_artifacts'[Len(bt_artifacts')].paths) = Len(bt_out.paths)]_vars
    /\ []((ProducedNoPath /\ bt_pc \notin {"produced", "stat", "checksum"})
              => BundlerBugError)
    /\ []((ProducedMissingPath /\ bt_pc \notin {"produced", "stat"})
              => /\ bt_pc = "returned" /\ bt_result.kind = "err"
                 /\ ~BundlerBugError)

\* a first type was recorded with two paths, then the second type's
\* producer returned Ok with no path and the run returned the bundler bug error
C17_Witness ==
    /\ BundlerBugError
    /\ ProducedNoPath
    /\ Len(bt_artifacts) = 1
    /\ Len(bt_artifacts[1].paths) = 2

\* a run failed on a missing path of its second type
C17_WitnessMissing ==
    /\ bt_pc = "returned" /\ bt_result.kind = "err"
    /\ ProducedMissingPath
    /\ Len(bt_artifacts) = 1

\* the types the claim says bundle() attempts
ExpectedTypes ==
    IF bt_settings_types.some THEN bt_settings_types.val
    ELSE CASE bt_host = "linux" ->
                 IF bt_has_makensis THEN <<"Deb", "Rpm", "AppImage", "Exe">>
                 ELSE <<"Deb", "Rpm", "AppImage">>
           [] bt_host = "macos" -> <<"MacOsBundle", "Dmg">>
           [] OTHER -> <<>>

\* s is an initial part of t
IsPrefix(s, t) == Len(s) <= Len(t) /\ SubSeq(t, 1, Len(s)) = s

C18_WitnessExplicit ==
    /\ bt_pc = "returned" /\ bt_result.kind = "ok"
    /\ bt_settings_types = [some |-> TRUE, val |-> <<"AppImage", "Deb">>]
    /\ bt_has_makensis
    /\ bt_invoked = <<"AppImage", "Deb">>

\* C19: the producers run one at a time in the order of the requested types:
\* when the k-th producer has been started, the k-1 types before it have
\* their records (size and checksum computed), the i-th invocation is of the
\* i-th requested type, and the i-th artifact has the i-th requested type.
C19_SequentialInOrder ==
    /\ Len(bt_invoked) \in {Len(bt_artifacts), Len(bt_artifacts) + 1}
    /\ IsPrefix(bt_invoked, bt_types)
    /\ \A i \in DOMAIN bt_artifacts :
          /\ bt_artifacts[i].package_type = bt_types[i]
          /\ bt_artifacts[i].size > 0
          /\ bt_artifacts[i].checksum # ""
    /\ (bt_pc = "returned" /\ bt_result.kind = "ok") =>
          /\ Len(bt_result.artifacts) = Len(bt_types)
          /\ \A i \in DOMAIN bt_types : bt_result.artifacts[i].package_type = bt_types[i]

\* two different types were requested and built, the second after the first
C19_Witness ==
    /\ bt_pc = "returned" /\ bt_result.kind = "ok"
    /\ Len(bt_types) = 2
    /\ bt_types[1] # bt_types[2]
    /\ bt_invoked = bt_types

(***************************************************************************)
(* Claims about the DMG producer                                           *)
(***************************************************************************)
\* C20: DMG creation starts only with an .app directory at the expected
\* path; find_or_create_app_bundle reuses an existing directory without
\* invoking the app producer and otherwise invokes it exactly once; a run
\* requesting [MacOsBundle, Dmg] has invoked the app producer exactly once
\* when DMG creation starts and when the run returns.
C20_DmgFindsOrCreatesApp ==
    /\ [](dm_pc = "create_dmg" => dm_app = "dir")
    /\ [][dm_pc = "find" =>
              dm_app_calls' = IF dm_app = "dir" THEN dm_app_calls
                              ELSE dm_app_calls + 1]_vars
    /\ []((dm_types = <<"MacOsBundle", "Dmg">> /\ dm_pc \in {"create_dmg", "returned"})
              => dm_app_calls = 1)

\* the run [MacOsBundle, Dmg] has returned Ok, the app producer invoked once
C20_Witness ==
    /\ dm_types = <<"MacOsBundle", "Dmg">>
    /\ dm_pc = "returned" /\ dm_result = "ok"
    /\ dm_app_calls = 1

\* a run [Dmg] with no .app on disk built it before creating the DMG
C20_WitnessCreated ==
    /\ dm_types = <<"Dmg">>
    /\ dm_pc = "create_dmg"
    /\ dm_app_calls = 1

(***************************************************************************)
(* Claims about a second run, tolerated failures and the platform names    *)
(***************************************************************************)
\* C21: a second run of bundle_dylib_dependencies on a bundle on which the
\* first run returned Ok changes nothing: no library is copied again, no
\* load path of a binary or of a bundled library changes, the Frameworks
\* directory holds what it held, nothing is processed, and the second run
\* returns Ok.
C21_SecondRunChangesNothing ==
    rr_run = 2 =>
        /\ dy_copies = rr_first.copies
        /\ dy_frameworks = rr_first.frameworks
        /\ dy_binfixed = rr_first.binfixed
        /\ dy_frameworks_dir
        /\ dy_processed = {}
        /\ dy_stack = <<>>
        /\ dy_pc = "done" => dy_result.kind = "ok"

\* a second run has returned on a bundle into which the first run copied
\* two libraries and whose binaries it rewrote
C21_Witness ==
    /\ rr_run = 2
    /\ dy_pc = "done"
    /\ dy_result.kind = "ok"
    /\ Cardinality(dy_frameworks) >= 2
    /\ dy_binfixed = BinaryPaths

\* C22: a failing external tool call makes the run return an error (the
\* search-path hint and the DMG window script excepted).  For the -change
\* rewrites of a bundled library: a run returns Ok only if none of them
\* failed, so that at Ok no bundled library still loads a non-system path.
C22_ToolFailureIsError ==
    (dy_pc = "done" /\ dy_result.kind = "ok") =>
        \A f \in dy_frameworks : NonSystem(f.libs) = <<>>

\* the package type each platform name stands for, by the claim
NamedPlatform(platform) ==
    LET p == ToLowercase(platform)
    IN  IF p = "deb" THEN "Deb"
        ELSE IF p = "rpm" THEN "Rpm"
        ELSE IF p = "appimage" THEN "AppImage"
        ELSE IF p = "dmg" THEN "Dmg"
        ELSE IF p \in {"macos-bundle", "app"} THEN "MacOsBundle"
        ELSE IF p = "exe" THEN "Exe"
        ELSE "none"

\* C23: parse_platform_string maps, whatever the case of the letters, deb
\* to Deb, dmg to Dmg, macos-bundle and app to MacOsBundle and exe to Exe:
\* a parsed package type is the named one, and the InvalidArguments error
\* is only returned for a string that names no platform.
C23_ParsePlatformNames ==
    /\ mn_package_type # "none" => mn_package_type = NamedPlatform(mn_args.platform)
    /\ (mn_ret.kind = "err" /\ mn_ret.command = "InvalidArguments"
            /\ StartsWith(mn_ret.reason, "Unsupported platform"))
        => NamedPlatform(mn_args.platform) = "none"

\* the libraries of the transitive non-system tree of a binary
TreeOf(binary_path) == ReachFrom(dy_disk, {}, {binary_path}) \ {binary_path}

\* C24: in a run that returns Ok every binary has its load paths rewritten
\* and the search-path hint added (fix_binary_dylib_paths has run on it),
\* whatever its place in the list of binaries, and a binary is only fixed
\* after every library of its transitive non-system tree has been copied.
\* The first part is stated for the runs that bundled a library at all.
C24_EveryBinaryFixedAfterItsTree ==
    /\ \A b \in dy_binfixed : \A l \in TreeOf(b) : dy_copies[l] >= 1
    /\ (dy_pc = "done" /\ dy_result.kind = "ok" /\ dy_processed # {})
        => dy_binfixed = BinaryPaths

(***************************************************************************)
(* Claims about the bytes fed to the directory hash                        *)
(***************************************************************************)
RECURSIVE StreamInByteOrder(_)
\* the pairs by ascending byte order of their relative path strings, each
\* as path then content
StreamInByteOrder(pairs) ==
    IF pairs = {} THEN ""
    ELSE LET first == CHOOSE a \in pairs :
                          \A b \in pairs \ {a} :
                              StrLess(PathString(a.rel), PathString(b.rel))
         IN  PathString(first.rel) \o first.content
                 \o StreamInByteOrder(pairs \ {first})

\* C25: the files are fed to the hash in byte-lexicographic order of their
\* relative path strings, each as its path bytes followed by its content,
\* for every tree, also one in which a file name is a directory name
\* followed by a byte smaller than the separator.
C25_FedInByteOrder ==
    (hs_pc = "done" /\ hs_result.kind = "ok") =>
        hs_stream = StreamInByteOrder(RegularPairs(hs_tree))

\* C29: the bytes fed to the hash determine the tree: no tree with another
\* set of (relative path, content) pairs is fed as the same byte sequence
\* as the tree that was hashed.
C29_FedBytesDetermineTree ==
    (hs_pc = "done" /\ hs_result.kind = "ok") =>
        \A other \in Trees :
            RegularPairs(other) # RegularPairs(hs_tree)
                => StreamOfPairs(RegularPairs(other)) # hs_stream

(***************************************************************************)
(* Claims about fat binaries and library file names                        *)
(***************************************************************************)
\* C26: get_dylib_dependencies answers, for a fat Mach-O, the dependencies
\* of its first architecture slice, so that the non-system dependencies of
\* a fat binary are bundled as those of a thin one: after an Ok run every
\* library of the transitive non-system tree of every binary has been
\* copied.
C26_FatBundledAsThin ==
    (dy_pc = "done" /\ dy_result.kind = "ok") =>
        \A b \in BinaryPaths : \A l \in TreeOf(b) : dy_copies[l] >= 1

\* C30: at the end of an Ok run the Frameworks directory holds one file
\* for every processed library path, with the content of that path's
\* source: two processed paths that share a file name do not overwrite one
\* another.
C30_OneFilePerProcessedPath ==
    (dy_pc = "done" /\ dy_result.kind = "ok") =>
        /\ \A p \in dy_processed : \E f \in dy_frameworks : f.src = p
        /\ Cardinality(dy_frameworks) = Cardinality(dy_processed)

(***************************************************************************)
(* Claims about the temporary target directory and the builder image       *)
(***************************************************************************)
\* C28: when bundle_platform has returned, with Ok or with an error raised
\* after the temporary target directory was created, the directory
\* target-temp-<uuid> no longer exists.
C28_TempDirRemovedOnReturn ==
    (bp_pc = "returned" /\ bp_temp # "absent") => bp_temp = "removed"

\* C27: ensure_image_built returns Ok only if, within the call, docker
\* build completed with exit status 0, or an existing image was found that
\* is up to date (the Dockerfile modified at most the tolerance after the
\* image was created) and known to be at most 7 days old; and after a
\* failing health check neither the image lookup nor a build is attempted.
C27_OkMeansBuiltOrFresh ==
    /\ (im_pc = "returned" /\ im_result.kind = "ok") =>
          \/ im_built
          \/ /\ im_image.exists
             /\ im_image.diff_secs <= STALENESS_TOLERANCE_SECS
             /\ im_age.known
             /\ im_age.days <= MaxImageAgeDays
    /\ (im_pc = "returned" /\ im_result.kind = "err"
            /\ im_result.command = "docker version")
          => im_calls = <<"docker version">>

====
